---------------------------- MODULE Spec2Model ----------------------------
(***************************************************************************)
(* ShuaiTravelAgent front end: the chat turn (ChatArea.handleSend over     *)
(* APIService.fetchStreamChat), the Stop button, the message cache of the  *)
(* context provider (AppContext) and the session listing; the zustand      *)
(* stores (chat, session, config) and the useSendMessage hook over them.   *)
(*                                                                         *)
(* React semantics kept by the model: a handler or callback reads the      *)
(* values of the render in which its closure was created, so every turn    *)
(* carries the values handleSend captured when it was clicked (capXxx); a   *)
(* functional updater (setX(prev => ...)) reads the live state; state set  *)
(* in one synchronous segment is committed together, and the effect on     *)
(* [currentSessionId] runs right after a commit that changed it.           *)
(* Strings are sequences of tokens.                                        *)
(***************************************************************************)
EXTENDS Integers, Sequences, FiniteSets, TLC

\* ------------------------------------------------------------------ bounds
MaxTurns == 2
MaxSoloTurns == 1
MaxSessions == 2
MaxBatch == 2
MaxListed == 3
MaxClock == 3
MaxSteps == 2
MaxWorkingMemory == 2
MaxMessages == 3
MaxCalls == 2
MaxRequests == 1

\* Time is counted in half hours: the recency window of the session lists.
OneHour == 2

TurnIds == 1..MaxTurns
SoloTurnIds == 1..MaxSoloTurns
SessionIds == 1..MaxSessions
CallIds == 1..MaxCalls
NoSession == 0
Empty == << >>

\* ------------------------------------------------------------ SSE events
\* One parsed `data:` line: data.type, data.content, data.chunk, data.error.
Ev(type, content) == [type |-> type, content |-> content, chunk |-> Empty, error |-> Empty]

\* The enqueue calls with the answer chunk and the completion exchanged.
MockStreamEventsSwapped ==
  << Ev("session_id", Empty),
     Ev("reasoning_start", Empty),
     Ev("reasoning_chunk", <<"r1">>),
     Ev("reasoning_end", Empty),
     Ev("answer_start", Empty),
     Ev("done", Empty),
     Ev("chunk", <<"a1">>) >>

\* POST /api/chat/stream of the mock handlers: the enqueue calls in order.
MockStreamEvents ==
  << Ev("session_id", Empty),
     Ev("reasoning_start", Empty),
     Ev("reasoning_chunk", <<"r1">>),
     Ev("reasoning_end", Empty),
     Ev("answer_start", Empty),
     Ev("chunk", <<"a1">>),
     Ev("done", Empty) >>

\* The backend's stream as the event vocabulary of the design describes it:
\* several chunks, and an error event that ends the stream at any point.
BackendStreams ==
  << << Ev("session_id", Empty), Ev("reasoning_start", Empty),
        Ev("reasoning_chunk", <<"r1">>), Ev("reasoning_chunk", <<"r2">>),
        Ev("reasoning_end", Empty), Ev("answer_start", Empty),
        Ev("chunk", <<"a1">>), Ev("chunk", <<"a2">>), Ev("done", Empty) >>,
     << Ev("session_id", Empty), Ev("reasoning_start", Empty),
        Ev("reasoning_chunk", <<"r1">>), Ev("reasoning_end", Empty),
        Ev("answer_start", Empty), Ev("chunk", <<"a1">>),
        Ev("error", <<"e">>) >>,
     << Ev("session_id", Empty), Ev("reasoning_start", Empty),
        Ev("reasoning_chunk", <<"r1">>),
        [type |-> "error", content |-> Empty, chunk |-> Empty, error |-> Empty] >> >>

Streams == <<MockStreamEvents>> \o BackendStreams
StreamIds == 1..Len(Streams)

\* ----------------------------------------------------------- fetchStreamChat
\* The if/else-if chain on one parsed line: the callback it invokes, the
\* argument it passes, and whether fetchStreamChat returns after it.
Dispatch(data) ==
  IF data.type = "metadata" THEN [cb |-> "onMetadata", arg |-> Empty, ret |-> FALSE]
  ELSE IF data.type = "reasoning_start" THEN [cb |-> "onReasoningStart", arg |-> Empty, ret |-> FALSE]
  ELSE IF data.type = "reasoning_chunk" /\ data.content # Empty
    THEN [cb |-> "onReasoning", arg |-> data.content \o <<"\n">>, ret |-> FALSE]
  ELSE IF data.type = "reasoning_end" THEN [cb |-> "onReasoningEnd", arg |-> Empty, ret |-> FALSE]
  ELSE IF data.type = "answer_start" THEN [cb |-> "onAnswerStart", arg |-> Empty, ret |-> FALSE]
  ELSE IF data.type = "chunk" /\ data.content # Empty
    THEN [cb |-> "onChunk", arg |-> data.content, ret |-> FALSE]
  ELSE IF data.type = "error" /\ data.content # Empty
    THEN [cb |-> "onError", arg |-> data.content, ret |-> TRUE]
  ELSE IF data.type = "done" THEN [cb |-> "onComplete", arg |-> Empty, ret |-> TRUE]
  ELSE IF data.chunk # Empty THEN [cb |-> "onChunk", arg |-> data.chunk, ret |-> FALSE]
  ELSE IF data.error # Empty THEN [cb |-> "onError", arg |-> data.error, ret |-> TRUE]
  ELSE [cb |-> "none", arg |-> Empty, ret |-> FALSE]


\* ------------------------------------------------------------------ state
VARIABLES
  currentSessionId,   \* AppContext: currentSessionId (NoSession is null)
  messages,           \* AppContext: the displayed message list
  sessionMessages,    \* AppContext: the cache, a function from the ids it holds to lists
  isStreaming,        \* AppContext
  stopStreaming,      \* AppContext
  streamingMessage,   \* ChatArea
  streamingReasoning, \* ChatArea
  waitingForResponse, \* ChatArea
  isThinking,         \* ChatArea
  error,              \* ChatArea (Empty is null)
  turns,              \* the handleSend invocations: position, locals, captured values
  sidebar,            \* the pending handler of the Sidebar, with what it captured
  sessions,           \* AppContext: the ids of the session list (the sidebar shows them)
  created,            \* the server: the number of sessions created so far (ids 1..created)
  mockSessions,       \* the server: the SessionInfo array, newest first
  now,                \* Date.now()
  storeSessions,      \* useSessionStore: the ids of its session list
  sidebarSessions,    \* the polling Sidebar: the ids of its session list
  engine,             \* the reasoning engine of one turn, with its LLM client call
  memory,             \* the memory manager of one session
  chatStore,          \* useChatStore: the state of the chat store
  sessionStore,       \* useSessionStore: its state and its calls in flight
  configStore,        \* useConfigStore: its model state and its calls in flight
  appConfig,          \* AppContext: its model state and its calls in flight
  sends               \* the useSendMessage.sendMessage invocations

vars == << currentSessionId, messages, sessionMessages, isStreaming, stopStreaming,
           streamingMessage, streamingReasoning, waitingForResponse, isThinking,
           error, turns, sidebar, sessions, created,
           mockSessions, now, storeSessions, sidebarSessions,
           engine, memory, chatStore,
           sessionStore, configStore, appConfig, sends >>

\* The stores beside the chat store, and the hook that sends over them.
StoreVars == << sessionStore, configStore, appConfig, sends >>

CoreVars == << engine, memory, chatStore, StoreVars >>

\* A Message. sid and turn are history fields no action reads: the session the
\* producing request was sent to and the turn that produced it (0: the Stop button).
Msg(role, content, reasoning, sid, turn) ==
  [role |-> role, content |-> content, reasoning |-> reasoning, sid |-> sid, turn |-> turn]

\* The mock server's array when the page loads.
InitialMockSessions ==
  << [session_id |-> 1, message_count |-> 5, last_active |-> 0, name |-> "test-1"] >>

\* POST /api/session/new: the new SessionInfo is put in front.
PostSessionNew(list, id, time) ==
  << [session_id |-> id, message_count |-> 0, last_active |-> time, name |-> "null"] >>
    \o list

\* PUT /api/session/:sessionId/name with the name the request carries.
PutSessionName(list, id, name) ==
  LET found == { i \in DOMAIN list : list[i].session_id = id } IN
  [i \in DOMAIN list |->
     IF i \in found /\ \A j \in found : i <= j
       THEN [list[i] EXCEPT !.name = "new-name"] ELSE list[i]]

\* DELETE /api/session/:sessionId of the mock handlers: findIndex and splice.
DeleteSession(list, id) ==
  LET found == { i \in DOMAIN list : list[i].session_id = id } IN
  IF found = {} THEN list
  ELSE LET index == CHOOSE i \in found : \A j \in found : i <= j
       IN SubSeq(list, 1, index - 1) \o SubSeq(list, index + 1, Len(list))

\* The filter of AppProvider.loadSessions / refreshSessions and of the store's
\* refreshSessions, as the set of the ids it keeps.
ActiveSessions(list, time, includeEmpty) ==
  { list[i].session_id : i \in
      { j \in DOMAIN list : \/ includeEmpty
                            \/ list[j].message_count > 0
                            \/ list[j].last_active > time - OneHour } }

\* The filter of the polling Sidebar's loadSessions.
SidebarActiveSessions(list) ==
  { list[i].session_id : i \in { j \in DOMAIN list : list[j].message_count > 0 } }

\* ------------------------------------------------- the agent behind the API
\* The LLM client: the attempts of one call of complete.
MaxAttempts == 3

LlmErrors ==
  {"TransientProviderError", "AuthError", "InvalidRequestError",
   "ProtocolTranslationError"}

LlmOutcomes == {"ok"} \cup LlmErrors

NewCall == [attempts |-> 0, outcomes |-> << >>, status |-> "pending", error |-> "none"]

\* One attempt of complete that retries after every error.
completeRetryingAll(call, outcome) ==
  LET made == [call EXCEPT !.attempts = @ + 1, !.outcomes = Append(@, outcome)] IN
  IF outcome = "ok" THEN [made EXCEPT !.status = "ok"]
  ELSE IF made.attempts < MaxAttempts THEN made
  ELSE [made EXCEPT !.status = "failed", !.error = outcome]

\* One attempt of complete: the answer ends the call, a TransientProviderError
\* is retried while attempts are left, every other error is surfaced.
complete(call, outcome) ==
  LET made == [call EXCEPT !.attempts = @ + 1, !.outcomes = Append(@, outcome)] IN
  IF outcome = "ok" THEN [made EXCEPT !.status = "ok"]
  ELSE IF outcome = "TransientProviderError" /\ made.attempts < MaxAttempts THEN made
  ELSE [made EXCEPT !.status = "failed", !.error = outcome]

\* The tool registry: the registered names, and the decisions of the model.
Registry == {"search_cities"}

ToolNames == Registry \cup {"unparsable"}

ToolArguments == {"valid", "malformed"}

ToolErrors == {"InvalidArguments", "ExecutionFailed", "UnknownTool"}

NoAction == [name |-> "none", arguments |-> "none"]

\* execute(name, arguments): the schema is checked before the handler runs.
execute(action, handlerThrows) ==
  IF action.name \notin Registry THEN "UnknownTool"
  ELSE IF action.arguments = "malformed" THEN "InvalidArguments"
  ELSE IF handlerThrows THEN "ExecutionFailed"
  ELSE "result"

\* The memory manager.  Scores are in hundredths.
DecayPercent == 95
InitialScore == 100
PruningFloor == 90
RelevanceThreshold == 92
MaxRelevant == 1
MaxExchanges == MaxWorkingMemory + 3

PreferenceKeys == {"budget", "season"}

EmptyMemory == [recorded |-> 0, working |-> << >>, longTerm |-> << >>, pruned |-> {}]

\* score *= decayRate that leaves the score as it was.
decayNone(score) == score

\* score *= decayRate
decay(score) == (score * DecayPercent) \div 100

\* Working Memory after an exchange too many, dropping the newest one kept.
evictNewest(working) ==
  IF Len(working) > MaxWorkingMemory
    THEN SubSeq(working, 1, MaxWorkingMemory - 1) \o << working[Len(working)] >>
    ELSE working

\* Working Memory after an append: the oldest exchange goes on overflow.
evict(working) ==
  IF Len(working) > MaxWorkingMemory THEN Tail(working) ELSE working

\* recordExchange: the exchange is appended to Working Memory, the Long-Term
\* entries are re-scored and those under the floor removed, and the extracted
\* preference signal (none when the extraction yields nothing) is upserted.
\* An entry carries the number of exchanges since its last upsert, and the
\* memory the keys the call removed.
recordExchange(mem, signal) ==
  LET id == mem.recorded + 1
      decayed == [k \in DOMAIN mem.longTerm |->
                    [score |-> decay(mem.longTerm[k].score),
                     age |-> mem.longTerm[k].age + 1]]
      kept == { k \in DOMAIN decayed : decayed[k].score >= PruningFloor }
      keys == IF signal = "none" THEN kept ELSE kept \cup {signal}
  IN [recorded |-> id,
      working |-> evict(Append(mem.working, id)),
      pruned |-> (DOMAIN decayed \ kept) \ {signal},
      longTerm |-> [k \in keys |->
                      IF k = signal THEN [score |-> InitialScore, age |-> 0]
                                    ELSE decayed[k]]]

\* The n most relevant of the keys, most relevant first.
RECURSIVE MostRelevant(_, _, _)
MostRelevant(longTerm, keys, n) ==
  IF n = 0 \/ keys = {} THEN << >>
  ELSE LET best == CHOOSE k \in keys :
                     \A j \in keys : longTerm[k].score >= longTerm[j].score
       IN << best >> \o MostRelevant(longTerm, keys \ {best}, n - 1)

\* buildContext: the preamble, the relevant Long-Term entries, Working Memory.
buildContext(mem) ==
  [preamble |-> TRUE,
   longTerm |-> MostRelevant(mem.longTerm,
                  { k \in DOMAIN mem.longTerm :
                      mem.longTerm[k].score > RelevanceThreshold }, MaxRelevant),
   working |-> mem.working]

NoContext == [preamble |-> FALSE, longTerm |-> << >>, working |-> << >>]

\* The engine of a turn that has not started.
IdleEngine ==
  [state |-> "Started", steps |-> << >>, action |-> NoAction, result |-> "none",
   call |-> NewCall, events |-> << >>, context |-> NoContext, raised |-> << >>]

\* useChatStore: the initial state of the chat store.
InitialChatStore ==
  [messages |-> << >>, streamingMessage |-> Empty, streamingReasoning |-> Empty,
   isStreaming |-> FALSE, isThinking |-> FALSE, thinkingStartTime |-> << >>,
   thinkingElapsed |-> 0, error |-> << >>, reasoningExpanded |-> << >>,
   called |-> "none"]
\* useSessionStore: one call of an action of the store. result is a history
\* field: how the call ended for its caller.
IdleCall ==
  [op |-> "none", pc |-> "idle", id |-> NoSession, includeEmpty |-> FALSE,
   result |-> "none"]

\* useSessionStore: currentSessionId: null, sessions: [], loading: false
InitialSessionStore ==
  [currentSessionId |-> NoSession, sessions |-> << >>, loading |-> FALSE,
   calls |-> [c \in CallIds |-> IdleCall]]

\* No model chosen: currentModelId null.
NoModel == "null"

\* The model state of useConfigStore and of AppProvider: availableModels: [],
\* currentModelId: null, loadingModels: false. load and setModel are the
\* positions of loadModels and of setCurrentModelId; sent and called are history
\* fields: the setSessionModel requests sent and the last function called.
InitialConfig ==
  [availableModels |-> << >>, currentModelId |-> NoModel, loadingModels |-> FALSE,
   load |-> "idle",
   setModel |-> [pc |-> "idle", modelId |-> NoModel, session |-> NoSession,
                 result |-> "none"],
   sent |-> << >>, called |-> "none"]

\* One sendMessage of useSendMessage. content, reasoning and stored are history
\* fields: the fragments its own stream delivered, and the assistant messages
\* its onComplete added.
IdleSend ==
  [pc |-> "idle", sessionId |-> NoSession, streamId |-> 0, pos |-> 0,
   content |-> Empty, reasoning |-> Empty, stored |-> << >>, result |-> "none"]


IdleTurn ==
  [pc |-> "idle", sessionId |-> NoSession, capSid |-> NoSession, capStop |-> FALSE,
   capStreamMsg |-> Empty, streamId |-> 0, pos |-> 0,
   fullResponse |-> Empty, fullReasoning |-> Empty, log |-> << >>]

Init ==
  /\ currentSessionId = NoSession
  /\ messages = << >>
  /\ sessionMessages = << >>
  /\ isStreaming = FALSE
  /\ stopStreaming = FALSE
  /\ streamingMessage = Empty
  /\ streamingReasoning = Empty
  /\ waitingForResponse = FALSE
  /\ isThinking = FALSE
  /\ error = Empty
  /\ turns = [t \in TurnIds |-> IdleTurn]
  /\ sidebar = [pc |-> "idle", capSid |-> NoSession, capMessages |-> << >>,
                 target |-> NoSession]
  /\ sessions = {}
  /\ mockSessions = InitialMockSessions
  /\ created = Len(InitialMockSessions)
  /\ now = 0
  /\ storeSessions = {}
  /\ sidebarSessions = {}
  /\ engine = IdleEngine
  /\ memory = EmptyMemory
  /\ chatStore = InitialChatStore
  /\ sessionStore = InitialSessionStore
  /\ configStore = InitialConfig
  /\ appConfig = InitialConfig
  /\ sends = [t \in TurnIds |-> IdleSend]

\* The UI state a synchronous segment works on, with the turn's locals.
UiOf(t) ==
  [messages |-> messages, cache |-> sessionMessages, isStreaming |-> isStreaming,
   stopStreaming |-> stopStreaming,
   streamingMessage |-> streamingMessage, streamingReasoning |-> streamingReasoning,
   waiting |-> waitingForResponse, isThinking |-> isThinking, error |-> error,
   fullResponse |-> turns[t].fullResponse, fullReasoning |-> turns[t].fullReasoning,
   log |-> turns[t].log, ret |-> FALSE]

\* The UI state for a handler that belongs to no turn.
Ui0 ==
  [messages |-> messages, cache |-> sessionMessages, isStreaming |-> isStreaming,
   stopStreaming |-> stopStreaming,
   streamingMessage |-> streamingMessage, streamingReasoning |-> streamingReasoning,
   waiting |-> waitingForResponse, isThinking |-> isThinking, error |-> error,
   fullResponse |-> Empty, fullReasoning |-> Empty, log |-> << >>, ret |-> FALSE]

\* AppProvider.addMessage of the render whose currentSessionId is capSid: the
\* updater appends to the live list and stores the result under capSid.
addMessage(S, msg, capSid) ==
  LET newMessages == Append(S.messages, msg) IN
  [S EXCEPT !.messages = newMessages,
            !.cache = IF capSid # NoSession
                        THEN (capSid :> newMessages) @@ S.cache
                        ELSE S.cache]

\* The useEffect on [currentSessionId]: reset of all streaming state.
SessionChangeEffect(S) ==
  [S EXCEPT !.streamingMessage = Empty, !.streamingReasoning = Empty,
            !.waiting = FALSE, !.isThinking = FALSE, !.error = Empty,
            !.isStreaming = FALSE, !.stopStreaming = FALSE]

\* handleSend from addMessage(userMessage) to setStreamingReasoning('').
SendSegment(S, t, sid, capSid) ==
  LET S1 == addMessage(S, Msg("user", <<"q">>, Empty, sid, t), capSid) IN
  [S1 EXCEPT !.isStreaming = TRUE, !.stopStreaming = FALSE, !.waiting = TRUE,
             !.isThinking = TRUE, !.error = Empty,
             !.streamingMessage = Empty, !.streamingReasoning = Empty]

\* onChunk with the new text put in front of the answer.
onChunkReversed(S, content) ==
  [S EXCEPT !.fullResponse = content \o @, !.streamingMessage = content \o @]

\* The callbacks handleSend passes to fetchStreamChat.
onChunk(S, content) ==
  [S EXCEPT !.fullResponse = @ \o content, !.streamingMessage = @ \o content]

onReasoning(S, content) ==
  [S EXCEPT !.fullReasoning = @ \o content, !.streamingReasoning = @ \o content]

onError(S, errorMsg) ==
  [S EXCEPT !.waiting = FALSE, !.isThinking = FALSE, !.error = errorMsg,
            !.fullResponse = <<"sorry:">> \o errorMsg]

onComplete(S, t) ==
  LET finalContent == IF S.fullResponse # Empty THEN S.fullResponse
                                                ELSE turns[t].capStreamMsg
      S1 == addMessage(S, Msg("assistant", finalContent, S.fullReasoning,
                              turns[t].sessionId, t), turns[t].capSid)
  IN [S1 EXCEPT !.streamingMessage = Empty, !.streamingReasoning = Empty,
                !.waiting = FALSE, !.isStreaming = FALSE]

Callback(S, t, d) ==
  CASE d.cb = "onChunk" -> onChunk(S, d.arg)
    [] d.cb = "onReasoning" -> onReasoning(S, d.arg)
    [] d.cb = "onReasoningStart" -> [S EXCEPT !.isThinking = TRUE]
    [] d.cb = "onReasoningEnd" -> [S EXCEPT !.isThinking = FALSE]
    [] d.cb = "onError" -> onError(S, d.arg)
    [] d.cb = "onComplete" -> onComplete(S, t)
    [] OTHER -> S

\* One line of a read after which fetchStreamChat never returns.
OnLineNeverReturning(S, t, data) ==
  LET d == Dispatch(data)
      S1 == IF data.type = "error" THEN [S EXCEPT !.log = Append(@, "recv_error")] ELSE S
      S2 == IF d.cb # "none" THEN [S1 EXCEPT !.log = Append(@, d.cb)] ELSE S1
  IN [Callback(S2, t, d) EXCEPT !.ret = FALSE]

\* One line of a read: the log keeps the receipt of an error-typed event and
\* every callback delivered.
OnLine(S, t, data) ==
  LET d == Dispatch(data)
      S1 == IF data.type = "error" THEN [S EXCEPT !.log = Append(@, "recv_error")] ELSE S
      S2 == IF d.cb # "none" THEN [S1 EXCEPT !.log = Append(@, d.cb)] ELSE S1
  IN [Callback(S2, t, d) EXCEPT !.ret = d.ret]

\* The for loop over the lines of one read: it stops at a return.
RECURSIVE ProcessLines(_, _, _)
ProcessLines(S, t, evs) ==
  IF evs = << >> \/ S.ret THEN S
  ELSE ProcessLines(OnLine(S, t, Head(evs)), t, Tail(evs))

\* Commit of a segment's result to the UI state.
CommitUi(S) ==
  /\ messages' = S.messages
  /\ sessionMessages' = S.cache
  /\ isStreaming' = S.isStreaming
  /\ stopStreaming' = S.stopStreaming
  /\ streamingMessage' = S.streamingMessage
  /\ streamingReasoning' = S.streamingReasoning
  /\ waitingForResponse' = S.waiting
  /\ isThinking' = S.isThinking
  /\ error' = S.error

\* Turn t's locals after a segment that leaves it at pc.
TurnAfter(S, t, pc) ==
  [turns[t] EXCEPT !.pc = pc, !.fullResponse = S.fullResponse,
                   !.fullReasoning = S.fullReasoning, !.log = S.log]

InFlight(t) == turns[t].pc \in {"create", "fetch", "read"}

\* ---------------------------------------------------------------- actions
UiVars == << currentSessionId, messages, sessionMessages, isStreaming, stopStreaming,
             streamingMessage, streamingReasoning, waitingForResponse, isThinking,
             error >>

ListVars == << mockSessions, now, storeSessions, sidebarSessions >>

\* AppProvider.refreshSessions(): what getSessions returns, filtered.
refreshSessions == ActiveSessions(mockSessions, now, FALSE)

\* The initial loadSessions of AppProvider (and every later refresh that is
\* not part of a handler below) answers.
LoadSessions ==
  /\ sessions # refreshSessions
  /\ sessions' = refreshSessions
  /\ UNCHANGED << CoreVars, UiVars, turns, sidebar, created, ListVars >>

\* ChatArea.handleSend, clicked: the Send button and the enabled input exist only
\* while isStreaming is false. With a current session it runs to the await of the
\* request, naming the session on its first message; without one it awaits
\* createSession first.
HandleSend(t) ==
  /\ turns[t].pc = "idle"
  /\ \A u \in TurnIds : u < t => turns[u].pc # "idle"
  /\ ~isStreaming
  /\ IF currentSessionId = NoSession
       THEN /\ turns' = [turns EXCEPT ![t] = [@ EXCEPT !.pc = "create",
                                                      !.capSid = NoSession,
                                                      !.capStop = stopStreaming,
                                                      !.capStreamMsg = streamingMessage]]
            /\ UNCHANGED << UiVars, mockSessions >>
       ELSE LET S == SendSegment(Ui0, t, currentSessionId, currentSessionId) IN
            /\ CommitUi(S)
            /\ turns' = [turns EXCEPT ![t] = [@ EXCEPT !.pc = "fetch",
                                                      !.sessionId = currentSessionId,
                                                      !.capSid = currentSessionId,
                                                      !.capStop = stopStreaming,
                                                      !.capStreamMsg = streamingMessage]]
            /\ mockSessions' = IF messages = << >>
                                 THEN PutSessionName(mockSessions, currentSessionId, "q")
                                 ELSE mockSessions
            /\ UNCHANGED currentSessionId
  /\ UNCHANGED << CoreVars, sidebar, sessions, created, now, storeSessions, sidebarSessions >>

\* handleSend after createSession resolved: setCurrentSessionId(new id), the send
\* segment with the addMessage of the click's render (currentSessionId null), then
\* the effect of the changed currentSessionId, and the naming of the session.
CreateSessionDone(t) ==
  /\ turns[t].pc = "create"
  /\ created < MaxSessions
  /\ LET new == created + 1
         S == SessionChangeEffect(SendSegment(Ui0, t, new, NoSession))
     IN /\ created' = new
        /\ mockSessions' = PutSessionName(PostSessionNew(mockSessions, new, now), new, "q")
        /\ currentSessionId' = new
        /\ CommitUi(S)
        /\ turns' = [turns EXCEPT ![t] = [@ EXCEPT !.pc = "fetch", !.sessionId = new]]
  /\ UNCHANGED << CoreVars, sidebar, sessions, now, storeSessions, sidebarSessions >>

\* handleSend: createSession rejected, the catch returns.
CreateSessionFails(t) ==
  /\ turns[t].pc = "create"
  /\ turns' = [turns EXCEPT ![t].pc = "done"]
  /\ UNCHANGED << CoreVars, UiVars, sidebar, sessions, created, ListVars >>

\* fetchStreamChat: the response is ok and carries stream s.
FetchResponse(t, s) ==
  /\ turns[t].pc = "fetch"
  /\ turns' = [turns EXCEPT ![t] = [@ EXCEPT !.pc = "read", !.streamId = s, !.pos = 0]]
  /\ UNCHANGED << CoreVars, UiVars, sidebar, sessions, created, ListVars >>

\* handleSend after fetchStreamChat returned: refreshSessions().
TurnReturns(S, t) ==
  /\ CommitUi(S)
  /\ turns' = [turns EXCEPT ![t] = TurnAfter(S, t, "done")]
  /\ sessions' = refreshSessions

\* fetchStreamChat: !response.ok, no reader, or fetch rejected: onError and return.
FetchFails(t) ==
  /\ turns[t].pc = "fetch"
  /\ TurnReturns(onError([UiOf(t) EXCEPT !.log = Append(@, "onError")], <<"http">>), t)
  /\ UNCHANGED << CoreVars, currentSessionId, sidebar, created, ListVars >>

\* fetchStreamChat: one pass of the while loop. onStop() returns the stopStreaming
\* of the click's render; a read brings n lines, or done at the end of the stream.
ReadStep(t, n) ==
  /\ turns[t].pc = "read"
  /\ LET stream == Streams[turns[t].streamId]
         pos == turns[t].pos
     IN IF turns[t].capStop
          THEN /\ n = 1
               /\ TurnReturns(UiOf(t), t)
          ELSE IF pos = Len(stream)
          THEN /\ n = 1
               /\ TurnReturns(onComplete([UiOf(t) EXCEPT !.log = Append(@, "onComplete")], t), t)
          ELSE /\ pos + n <= Len(stream)
               /\ LET S == ProcessLines(UiOf(t), t, SubSeq(stream, pos + 1, pos + n))
                  IN /\ CommitUi(S)
                     /\ turns' = [turns EXCEPT ![t] =
                                    [TurnAfter(S, t, IF S.ret THEN "done" ELSE "read")
                                       EXCEPT !.pos = pos + n]]
                     /\ sessions' = IF S.ret THEN refreshSessions ELSE sessions
  /\ UNCHANGED << CoreVars, currentSessionId, sidebar, created, ListVars >>

\* One piece of the text of a read, between two line feeds: fetchStreamChat
\* handles it when it starts with 'data: ' and its JSON parses.
OnPiece(S, t, piece) ==
  IF piece.startsWithData /\ piece.parses THEN OnLine(S, t, piece.data) ELSE S

\* A line whose bytes end one read and begin the next: the two pieces.
SplitLine(data) ==
  << [startsWithData |-> TRUE, parses |-> FALSE, data |-> data],
     [startsWithData |-> FALSE, parses |-> FALSE, data |-> data] >>

\* fetchStreamChat: a read that brings n lines and the first bytes of the next
\* line; the rest of that line comes first in the following read, where it
\* invokes nothing, so both pieces are handled here.
ReadSplit(t, n) ==
  /\ turns[t].pc = "read"
  /\ ~turns[t].capStop
  /\ LET stream == Streams[turns[t].streamId]
         pos == turns[t].pos
     IN /\ pos + n + 1 <= Len(stream)
        /\ LET S1 == ProcessLines(UiOf(t), t, SubSeq(stream, pos + 1, pos + n))
               pieces == SplitLine(stream[pos + n + 1])
               S == IF S1.ret THEN S1
                    ELSE OnPiece(OnPiece(S1, t, pieces[1]), t, pieces[2])
           IN /\ CommitUi(S)
              /\ turns' = [turns EXCEPT ![t] =
                             [TurnAfter(S, t, IF S.ret THEN "done" ELSE "read")
                                EXCEPT !.pos = pos + n + 1]]
              /\ sessions' = IF S.ret THEN refreshSessions ELSE sessions
  /\ UNCHANGED << CoreVars, currentSessionId, sidebar, created, ListVars >>

\* fetchStreamChat: reader.read() rejected, the catch calls onError.
ReadFails(t) ==
  /\ turns[t].pc = "read"
  /\ ~turns[t].capStop
  /\ TurnReturns(onError([UiOf(t) EXCEPT !.log = Append(@, "onError")], <<"net">>), t)
  /\ UNCHANGED << CoreVars, currentSessionId, sidebar, created, ListVars >>

\* ChatArea.handleStop: the Stop button exists only while isStreaming. The log of
\* every turn in flight in the current session keeps the acknowledgement.
HandleStop ==
  /\ isStreaming
  /\ LET S0 == [Ui0 EXCEPT !.stopStreaming = TRUE, !.waiting = FALSE,
                           !.isThinking = FALSE, !.isStreaming = FALSE]
         content == (IF streamingMessage # Empty THEN streamingMessage ELSE <<"stopped">>)
                      \o <<"\n\n", "stopped">>
         S1 == IF streamingMessage # Empty \/ streamingReasoning # Empty
                 THEN addMessage(S0, Msg("assistant", content, streamingReasoning,
                                         currentSessionId, 0), currentSessionId)
                 ELSE S0
         S == [S1 EXCEPT !.streamingMessage = Empty, !.streamingReasoning = Empty]
     IN CommitUi(S)
  /\ turns' = [t \in TurnIds |->
                 IF InFlight(t) /\ turns[t].sessionId = currentSessionId
                   THEN [turns[t] EXCEPT !.log = Append(@, "stop")]
                   ELSE turns[t]]
  /\ UNCHANGED << CoreVars, currentSessionId, sidebar, sessions, created, ListVars >>

\* AppProvider.switchSession(id) with the values of the render it belongs to.
switchSession(S, capSid, capMessages, capCache, id) ==
  [S EXCEPT !.cache = IF capSid # NoSession /\ capMessages # << >>
                        THEN (capSid :> capMessages) @@ S.cache
                        ELSE S.cache,
            !.messages = IF id # NoSession /\ id \in DOMAIN capCache
                           THEN capCache[id] ELSE << >>]

\* Sidebar.handleSwitchSession: a click on a listed session, followed by the
\* effect when currentSessionId changed.
SwitchSession(id) ==
  /\ id \in sessions
  /\ LET S1 == switchSession(Ui0, currentSessionId, messages, sessionMessages, id)
         S == IF id # currentSessionId THEN SessionChangeEffect(S1) ELSE S1
     IN CommitUi(S)
  /\ currentSessionId' = id
  /\ UNCHANGED << CoreVars, turns, sidebar, sessions, created, ListVars >>

\* Sidebar.handleCreateSession, clicked: setLoading(true) and the await of
\* createSession; switchSession is the one of this render.
SidebarCreate ==
  /\ sidebar.pc = "idle"
  /\ sidebar' = [pc |-> "creating", capSid |-> currentSessionId, capMessages |-> messages,
                 target |-> NoSession]
  /\ UNCHANGED << CoreVars, UiVars, turns, sessions, created, ListVars >>

\* Sidebar.handleCreateSession after createSession resolved: switchSession(new id),
\* whose captured cache has no entry for the new id, then refreshSessions().
SidebarCreateDone ==
  /\ sidebar.pc = "creating"
  /\ created < MaxSessions
  /\ LET new == created + 1
         S1 == switchSession(Ui0, sidebar.capSid, sidebar.capMessages, << >>, new)
         S == IF new # currentSessionId THEN SessionChangeEffect(S1) ELSE S1
     IN /\ CommitUi(S)
        /\ currentSessionId' = new
        /\ created' = new
        /\ mockSessions' = PostSessionNew(mockSessions, new, now)
        /\ sessions' = ActiveSessions(mockSessions', now, FALSE)
  /\ sidebar' = [pc |-> "idle", capSid |-> NoSession, capMessages |-> << >>,
                 target |-> NoSession]
  /\ UNCHANGED << CoreVars, turns, now, storeSessions, sidebarSessions >>

\* Sidebar.handleCreateSession: createSession rejected.
SidebarCreateFails ==
  /\ sidebar.pc = "creating"
  /\ sidebar' = [pc |-> "idle", capSid |-> NoSession, capMessages |-> << >>,
                 target |-> NoSession]
  /\ UNCHANGED << CoreVars, UiVars, turns, sessions, created, ListVars >>

\* Sidebar.handleDeleteSession(sessionId), clicked on a listed session: the
\* await of the DELETE; currentSessionId and switchSession are those of this render.
SidebarDelete(id) ==
  /\ sidebar.pc = "idle"
  /\ id \in sessions
  /\ sidebar' = [pc |-> "deleting", capSid |-> currentSessionId, capMessages |-> messages,
                 target |-> id]
  /\ UNCHANGED << CoreVars, UiVars, turns, sessions, created, ListVars >>

\* Sidebar.handleDeleteSession after the DELETE resolved: switchSession(null)
\* when the session is the captured current one, then refreshSessions().
SidebarDeleteDone ==
  /\ sidebar.pc = "deleting"
  /\ mockSessions' = DeleteSession(mockSessions, sidebar.target)
  /\ IF sidebar.target = sidebar.capSid
       THEN LET S1 == switchSession(Ui0, sidebar.capSid, sidebar.capMessages, << >>,
                                    NoSession)
                S == IF currentSessionId # NoSession THEN SessionChangeEffect(S1) ELSE S1
            IN CommitUi(S) /\ currentSessionId' = NoSession
       ELSE UNCHANGED UiVars
  /\ sessions' = ActiveSessions(mockSessions', now, FALSE)
  /\ sidebar' = [pc |-> "idle", capSid |-> NoSession, capMessages |-> << >>,
                 target |-> NoSession]
  /\ UNCHANGED << CoreVars, turns, created, now, storeSessions, sidebarSessions >>

\* Sidebar.handleDeleteSession: the DELETE rejected.
SidebarDeleteFails ==
  /\ sidebar.pc = "deleting"
  /\ sidebar' = [pc |-> "idle", capSid |-> NoSession, capMessages |-> << >>,
                 target |-> NoSession]
  /\ UNCHANGED << CoreVars, UiVars, turns, sessions, created, ListVars >>

\* AppProvider.setMessages of the render whose currentSessionId is capSid.
setMessages(S, newMessages, capSid) ==
  [S EXCEPT !.messages = newMessages,
            !.cache = IF capSid # NoSession
                        THEN (capSid :> newMessages) @@ S.cache
                        ELSE S.cache]

\* AppProvider.clearMessages of the render whose currentSessionId is capSid.
clearMessages(S, capSid) ==
  [S EXCEPT !.messages = << >>,
            !.cache = IF capSid # NoSession
                        THEN (capSid :> << >>) @@ S.cache
                        ELSE S.cache]

\* Sidebar.handleClearChat, clicked with a current session: the await of
\* clearChat; clearMessages is the one of this render.
ClearChat ==
  /\ sidebar.pc = "idle"
  /\ currentSessionId # NoSession
  /\ sidebar' = [pc |-> "clearing", capSid |-> currentSessionId, capMessages |-> << >>,
                 target |-> NoSession]
  /\ UNCHANGED << CoreVars, UiVars, turns, sessions, created, ListVars >>

\* Sidebar.handleClearChat after clearChat resolved: clearMessages().
ClearChatDone ==
  /\ sidebar.pc = "clearing"
  /\ CommitUi(clearMessages(Ui0, sidebar.capSid))
  /\ sidebar' = [pc |-> "idle", capSid |-> NoSession, capMessages |-> << >>,
                 target |-> NoSession]
  /\ UNCHANGED << CoreVars, currentSessionId, turns, sessions, created, ListVars >>

\* Sidebar.handleClearChat: clearChat rejected.
ClearChatFails ==
  /\ sidebar.pc = "clearing"
  /\ sidebar' = [pc |-> "idle", capSid |-> NoSession, capMessages |-> << >>,
                 target |-> NoSession]
  /\ UNCHANGED << CoreVars, UiVars, turns, sessions, created, ListVars >>

\* ------------------------------------------------------- the session lists
SessionNames == {"beijing", "new-name"}

\* AppProvider.refreshSessions(includeEmpty).
RefreshSessions(includeEmpty) ==
  /\ sessions' = ActiveSessions(mockSessions, now, includeEmpty)
  /\ UNCHANGED << CoreVars, UiVars, turns, sidebar, created, ListVars >>

\* useSessionStore.refreshSessions(includeEmpty): the Map keeps one entry per id.
StoreRefreshSessions(includeEmpty) ==
  /\ storeSessions' = ActiveSessions(mockSessions, now, includeEmpty)
  /\ UNCHANGED << CoreVars, UiVars, turns, sidebar, sessions, created, mockSessions, now,
                  sidebarSessions >>

\* The id `session-${Date.now()}` of a POST /api/session/new: the millisecond of
\* the previous POST again (sameMs), or a later one.
DateNowId(sameMs) == IF sameMs THEN created ELSE created + 1

\* useSessionStore.createSession: POST /api/session/new, then refreshSessions().
\* The server's clock may still show the millisecond of the previous POST.
StoreCreateSession(sameMs) ==
  /\ Len(mockSessions) < MaxListed
  /\ sameMs => (created > Len(InitialMockSessions) /\ Head(mockSessions).last_active = now)
  /\ created' = DateNowId(sameMs)
  /\ mockSessions' = PostSessionNew(mockSessions, DateNowId(sameMs), now)
  /\ storeSessions' = ActiveSessions(mockSessions', now, FALSE)
  /\ UNCHANGED << CoreVars, UiVars, turns, sidebar, sessions, now, sidebarSessions >>

\* useSessionStore.updateSessionName(sessionId, name): the PUT, then refreshSessions().
StoreUpdateSessionName(id, name) ==
  /\ mockSessions' = PutSessionName(mockSessions, id, name)
  /\ storeSessions' = ActiveSessions(mockSessions', now, FALSE)
  /\ UNCHANGED << CoreVars, UiVars, turns, sidebar, sessions, created, now, sidebarSessions >>

\* The polling Sidebar's loadSessions, run by its interval.
SidebarLoadSessions ==
  /\ sidebarSessions' = SidebarActiveSessions(mockSessions)
  /\ UNCHANGED << CoreVars, UiVars, turns, sidebar, sessions, created, mockSessions, now,
                  storeSessions >>

\* Half an hour passes.
Tick ==
  /\ now < MaxClock
  /\ now' = now + 1
  /\ UNCHANGED << CoreVars, UiVars, turns, sidebar, sessions, created, mockSessions,
                  storeSessions, sidebarSessions >>

\* The session lists over the mock server.
NextList ==
  \/ \E b \in BOOLEAN : RefreshSessions(b)
  \/ \E b \in BOOLEAN : StoreRefreshSessions(b)
  \/ \E sameMs \in BOOLEAN : StoreCreateSession(sameMs)
  \/ \E id \in 1..MaxListed, name \in SessionNames : StoreUpdateSessionName(id, name)
  \/ SidebarLoadSessions
  \/ Tick

\* The steps of the turns in T: sending, the stream, the Stop button.
ChatNext(T) ==
  \/ \E t \in T : HandleSend(t)
  \/ \E t \in T : CreateSessionDone(t)
  \/ \E t \in T : CreateSessionFails(t)
  \/ \E t \in T, s \in StreamIds : FetchResponse(t, s)
  \/ \E t \in T : FetchFails(t)
  \/ \E t \in T, n \in 1..MaxBatch : ReadStep(t, n)
  \/ \E t \in T : ReadFails(t)
  \/ HandleStop

\* The session list of the sidebar: loading, switching and creating sessions.
SidebarNext ==
  \/ LoadSessions
  \/ \E id \in SessionIds : SwitchSession(id)
  \/ SidebarCreate
  \/ SidebarCreateDone
  \/ SidebarCreateFails

\* Sidebar.handleSwitchSession before the first message is sent.
SelectSession(id) ==
  /\ \A t \in TurnIds : turns[t].pc = "idle"
  /\ SwitchSession(id)

\* One conversation with overlapping turns, in a new session or in a listed one.
Next ==
  \/ ChatNext(TurnIds)
  \/ LoadSessions
  \/ \E id \in SessionIds : SelectSession(id)

\* One turn at a time, in a new session or in a listed one.
NextSolo ==
  \/ ChatNext(SoloTurnIds)
  \/ LoadSessions
  \/ \E id \in SessionIds : SelectSession(id)

\* One turn at a time, with the sidebar.
NextSessions == ChatNext(SoloTurnIds) \/ SidebarNext

Spec == Init /\ [][Next]_vars

SpecSolo == Init /\ [][NextSolo]_vars

SpecSessions == Init /\ [][NextSessions]_vars

SpecList == Init /\ [][NextList]_vars

\* One turn at a time, with the session list and the Clear button of the sidebar.
NextClear ==
  \/ ChatNext(SoloTurnIds)
  \/ LoadSessions
  \/ \E id \in SessionIds : SwitchSession(id)
  \/ ClearChat
  \/ ClearChatDone
  \/ ClearChatFails

SpecClear == Init /\ [][NextClear]_vars

\* One turn at a time, with the sidebar and its Delete buttons.
NextDelete ==
  \/ NextSessions
  \/ \E id \in SessionIds : SidebarDelete(id)
  \/ SidebarDeleteDone
  \/ SidebarDeleteFails

SpecDelete == Init /\ [][NextDelete]_vars

\* The steps a turn takes by itself: the answers and failures of its requests
\* and the reads of its stream.
TurnProgress(T) ==
  \/ \E t \in T : CreateSessionDone(t)
  \/ \E t \in T : CreateSessionFails(t)
  \/ \E t \in T, s \in StreamIds : FetchResponse(t, s)
  \/ \E t \in T : FetchFails(t)
  \/ \E t \in T, n \in 1..MaxBatch : ReadStep(t, n)
  \/ \E t \in T : ReadFails(t)

\* One turn at a time whose requests are answered and whose stream is read to
\* its end; the user's clicks are not forced.
SpecSoloFair == SpecSolo /\ WF_vars(TurnProgress(SoloTurnIds))

\* One turn at a time, with reads that end anywhere in the byte stream.
NextReads ==
  \/ NextSolo
  \/ \E t \in SoloTurnIds, n \in 0..(MaxBatch - 1) : ReadSplit(t, n)

SpecReads == Init /\ [][NextReads]_vars

\* ------------------------------------------------------ the reasoning engine
FrontVars == << UiVars, turns, sidebar, sessions, created, ListVars, StoreVars >>

Respond == [name |-> "respond", arguments |-> "none"]

Decisions ==
  {Respond} \cup [name : ToolNames, arguments : ToolArguments]

\* Observing that fails the turn on a ToolError.
observeAborting(e) ==
  IF e.result \in ToolErrors
    THEN [e EXCEPT !.state = "Failed", !.events = Append(@, "error")]
    ELSE [e EXCEPT !.steps = Append(@, [index |-> Len(@) + 1, action |-> e.action,
                                         observation |-> e.result]),
                   !.state = "Thinking", !.call = NewCall]

\* Observing that loops back to Thinking whatever the number of steps.
observeUnbounded(e) ==
  [e EXCEPT !.steps = Append(@, [index |-> Len(@) + 1, action |-> e.action,
                                  observation |-> e.result]),
            !.state = "Thinking", !.call = NewCall]

\* Observing: the result or the ToolError message is appended as a Reasoning
\* Step; the loop goes back to Thinking, or to Answering once the step budget
\* is used up.
observe(e) ==
  LET steps == Append(e.steps, [index |-> Len(e.steps) + 1, action |-> e.action,
                                observation |-> e.result]) IN
  [e EXCEPT !.steps = steps,
            !.state = IF Len(steps) >= MaxSteps THEN "Answering" ELSE "Thinking",
            !.call = NewCall]

\* Started: a turn begins while the session may still record an exchange.
EngineStart ==
  /\ engine.state = "Started"
  /\ memory.recorded < MaxExchanges
  /\ engine' = [engine EXCEPT !.state = "Thinking",
                              !.context = buildContext(memory)]
  /\ UNCHANGED << FrontVars, memory, chatStore >>

\* Thinking: one attempt of the LLM call for the next Thought and decision.
Think(outcome, decision) ==
  /\ engine.state = "Thinking"
  /\ LET call == complete(engine.call, outcome) IN
       engine' =
         IF call.status = "pending" THEN [engine EXCEPT !.call = call]
         ELSE IF call.status = "failed"
           THEN [engine EXCEPT !.call = call, !.state = "Failed",
                               !.events = Append(@, "error")]
         ELSE IF decision = Respond
           THEN [engine EXCEPT !.call = NewCall, !.state = "Answering",
                               !.events = Append(@, "reasoning")]
         ELSE [engine EXCEPT !.call = call, !.state = "Acting",
                             !.action = decision,
                             !.events = Append(@, "reasoning")]
  /\ UNCHANGED << FrontVars, memory, chatStore >>

\* Acting: the action goes to the tool executor.
Act(handlerThrows) ==
  /\ engine.state = "Acting"
  /\ LET result == execute(engine.action, handlerThrows) IN
       engine' = [engine EXCEPT !.state = "Observing", !.result = result,
                    !.raised = IF result \in ToolErrors THEN Append(@, result) ELSE @]
  /\ UNCHANGED << FrontVars, memory, chatStore >>

Observe ==
  /\ engine.state = "Observing"
  /\ engine' = observe(engine)
  /\ UNCHANGED << FrontVars, memory, chatStore >>

\* Answering: one attempt of the final LLM call; its fragments are the answer
\* events, followed by done.
Answer(outcome) ==
  /\ engine.state = "Answering"
  /\ LET call == complete(engine.call, outcome) IN
       engine' =
         IF call.status = "pending" THEN [engine EXCEPT !.call = call]
         ELSE IF call.status = "failed"
           THEN [engine EXCEPT !.call = call, !.state = "Failed",
                               !.events = Append(@, "error")]
         ELSE [engine EXCEPT !.call = call, !.state = "Finished",
                             !.events = @ \o << "answer", "done" >>]
  /\ UNCHANGED << FrontVars, memory, chatStore >>

\* Finished: the exchange is persisted by recordExchange; the engine is ready
\* for the next turn of the session.
Persist(signal) ==
  /\ engine.state = "Finished"
  /\ memory' = recordExchange(memory, signal)
  /\ engine' = IdleEngine
  /\ UNCHANGED << FrontVars, chatStore >>

\* Failed: nothing is recorded; the engine is ready for the next turn.
EngineReset ==
  /\ engine.state = "Failed"
  /\ engine' = IdleEngine
  /\ UNCHANGED << FrontVars, memory, chatStore >>

NextEngine ==
  \/ EngineStart
  \/ \E outcome \in LlmOutcomes, decision \in Decisions : Think(outcome, decision)
  \/ \E handlerThrows \in BOOLEAN : Act(handlerThrows)
  \/ Observe
  \/ \E outcome \in LlmOutcomes : Answer(outcome)
  \/ \E signal \in PreferenceKeys \cup {"none"} : Persist(signal)
  \/ EngineReset

SpecEngine == Init /\ [][NextEngine]_vars

\* ------------------------------------------------------------ the chat store
\* The messages the callers of the store add.
StoreMessagePool ==
  { [role |-> "user", content |-> "Hello"],
    [role |-> "user", content |-> "First"],
    [role |-> "assistant", content |-> "Hello!"] }

\* The fragments of a stream, the ids of the messages shown, the error texts.
StoreFragments == { << "Hello" >>, << " World" >> }

MessageIds == {"msg-1", "msg-2"}

StoreErrors == { << >>, << "Something went wrong" >> }

\* The store after the named action: the model keeps the last action called.
Called(state, name) == [state EXCEPT !.called = name]

\* addMessage that puts the message in front.
storeAddMessagePrepending(state, message) ==
  [state EXCEPT !.messages = << message >> \o @]

\* useChatStore.addMessage: messages: [...state.messages, message]
storeAddMessage(state, message) ==
  [state EXCEPT !.messages = @ \o << message >>]

\* setMessages that keeps the messages it finds.
storeSetMessagesKeeping(state, list) ==
  [state EXCEPT !.messages = @ \o list]

\* useChatStore.setMessages: set({ messages })
storeSetMessages(state, list) == [state EXCEPT !.messages = list]

\* useChatStore.clearMessages: set({ messages: [] })
storeClearMessages(state) == [state EXCEPT !.messages = << >>]

\* updateStreamingMessage that puts the fragment in front.
storeUpdateStreamingMessagePrepending(state, content) ==
  [state EXCEPT !.streamingMessage = content \o @]

\* useChatStore.updateStreamingMessage: state.streamingMessage + content
storeUpdateStreamingMessage(state, content) ==
  [state EXCEPT !.streamingMessage = @ \o content]

\* useChatStore.updateStreamingReasoning: state.streamingReasoning + content
storeUpdateStreamingReasoning(state, content) ==
  [state EXCEPT !.streamingReasoning = @ \o content]

\* stopThinking that leaves the start time.
storeStopThinkingKeepingTime(state) ==
  [state EXCEPT !.isThinking = FALSE, !.thinkingElapsed = 0]

\* useChatStore.startThinking, with the value of Date.now().
storeStartThinking(state, time) ==
  [state EXCEPT !.isThinking = TRUE, !.thinkingStartTime = << time >>,
                !.thinkingElapsed = 0]

\* useChatStore.stopThinking
storeStopThinking(state) ==
  [state EXCEPT !.isThinking = FALSE, !.thinkingStartTime = << >>,
                !.thinkingElapsed = 0]

\* reasoningExpanded[messageId], undefined counting as false.
Expanded(flags, id) == id \in DOMAIN flags /\ flags[id]

\* toggleReasoning that collapses every other message.
storeToggleReasoningAlone(state, id) ==
  [state EXCEPT !.reasoningExpanded =
     [k \in {id} |-> ~Expanded(state.reasoningExpanded, id)]]

\* useChatStore.toggleReasoning:
\* {...state.reasoningExpanded, [messageId]: !state.reasoningExpanded[messageId]}
storeToggleReasoning(state, id) ==
  [state EXCEPT !.reasoningExpanded =
     [k \in DOMAIN state.reasoningExpanded \cup {id} |->
        IF k = id THEN ~Expanded(state.reasoningExpanded, id)
                  ELSE state.reasoningExpanded[k]]]

\* reset that keeps the message list.
storeResetKeepingMessages(state) ==
  [InitialChatStore EXCEPT !.messages = state.messages]

\* useChatStore.reset: set(initialState)
storeReset(state) == InitialChatStore

\* resetStreamingState that also collapses the reasoning of every message.
storeResetStreamingStateCollapsing(state) ==
  [state EXCEPT !.streamingMessage = Empty, !.streamingReasoning = Empty,
                !.isStreaming = FALSE, !.isThinking = FALSE,
                !.thinkingStartTime = << >>, !.thinkingElapsed = 0,
                !.error = << >>, !.reasoningExpanded = << >>]

\* useChatStore.resetStreamingState
storeResetStreamingState(state) ==
  [state EXCEPT !.streamingMessage = Empty, !.streamingReasoning = Empty,
                !.isStreaming = FALSE, !.isThinking = FALSE,
                !.thinkingStartTime = << >>, !.thinkingElapsed = 0,
                !.error = << >>]

StoreAddMessage(message) ==
  /\ Len(chatStore.messages) < MaxMessages
  /\ chatStore' = Called(storeAddMessage(chatStore, message), "addMessage")
  /\ UNCHANGED << FrontVars, engine, memory >>

StoreSetMessages(list) ==
  /\ chatStore' = Called(storeSetMessages(chatStore, list), "setMessages")
  /\ UNCHANGED << FrontVars, engine, memory >>

StoreClearMessages ==
  /\ chatStore' = Called(storeClearMessages(chatStore), "clearMessages")
  /\ UNCHANGED << FrontVars, engine, memory >>

StoreUpdateStreamingMessage(content) ==
  /\ Len(chatStore.streamingMessage) < MaxBatch
  /\ chatStore' = Called(storeUpdateStreamingMessage(chatStore, content),
                         "updateStreamingMessage")
  /\ UNCHANGED << FrontVars, engine, memory >>

StoreUpdateStreamingReasoning(content) ==
  /\ Len(chatStore.streamingReasoning) < MaxBatch
  /\ chatStore' = Called(storeUpdateStreamingReasoning(chatStore, content),
                         "updateStreamingReasoning")
  /\ UNCHANGED << FrontVars, engine, memory >>

StoreSetStreaming(streaming) ==
  /\ chatStore' = Called([chatStore EXCEPT !.isStreaming = streaming], "setStreaming")
  /\ UNCHANGED << FrontVars, engine, memory >>

StoreStartThinking(time) ==
  /\ chatStore' = Called(storeStartThinking(chatStore, time), "startThinking")
  /\ UNCHANGED << FrontVars, engine, memory >>

StoreStopThinking ==
  /\ chatStore' = Called(storeStopThinking(chatStore), "stopThinking")
  /\ UNCHANGED << FrontVars, engine, memory >>

StoreUpdateThinkingElapsed(elapsed) ==
  /\ chatStore' = Called([chatStore EXCEPT !.thinkingElapsed = elapsed],
                         "updateThinkingElapsed")
  /\ UNCHANGED << FrontVars, engine, memory >>

StoreSetError(err) ==
  /\ chatStore' = Called([chatStore EXCEPT !.error = err], "setError")
  /\ UNCHANGED << FrontVars, engine, memory >>

StoreToggleReasoning(id) ==
  /\ chatStore' = Called(storeToggleReasoning(chatStore, id), "toggleReasoning")
  /\ UNCHANGED << FrontVars, engine, memory >>

StoreReset ==
  /\ chatStore' = Called(storeReset(chatStore), "reset")
  /\ UNCHANGED << FrontVars, engine, memory >>

StoreResetStreamingState ==
  /\ chatStore' = Called(storeResetStreamingState(chatStore), "resetStreamingState")
  /\ UNCHANGED << FrontVars, engine, memory >>

\* The message list and the streaming buffers of the store.
NextStore ==
  \/ \E message \in StoreMessagePool : StoreAddMessage(message)
  \/ \E message \in StoreMessagePool : StoreSetMessages(<< message >>)
  \/ StoreClearMessages
  \/ \E content \in StoreFragments : StoreUpdateStreamingMessage(content)
  \/ \E content \in StoreFragments : StoreUpdateStreamingReasoning(content)
  \/ \E streaming \in BOOLEAN : StoreSetStreaming(streaming)
  \/ StoreReset
  \/ StoreResetStreamingState

\* Every action of the store, with one message and one fragment.
NextStoreAll ==
  \/ StoreAddMessage([role |-> "user", content |-> "Hello"])
  \/ StoreSetMessages(<< [role |-> "assistant", content |-> "Hello!"] >>)
  \/ StoreClearMessages
  \/ StoreUpdateStreamingMessage(<< "Hello" >>)
  \/ StoreUpdateStreamingReasoning(<< "Hello" >>)
  \/ \E streaming \in BOOLEAN : StoreSetStreaming(streaming)
  \/ StoreStartThinking(MaxClock)
  \/ StoreStopThinking
  \/ \E elapsed \in 0..1 : StoreUpdateThinkingElapsed(elapsed)
  \/ \E err \in StoreErrors : StoreSetError(err)
  \/ \E id \in MessageIds : StoreToggleReasoning(id)
  \/ StoreReset
  \/ StoreResetStreamingState

SpecStore == Init /\ [][NextStore]_vars

SpecStoreAll == Init /\ [][NextStoreAll]_vars
\* --------------------------------------------------------- the session store
\* The Map of refreshSessions replaced by the array it is built from.
uniqueSessionsKeepingAll(list) == list

\* useSessionStore.refreshSessions:
\* Array.from(new Map(data.sessions.map((s) => [s.session_id, s])).values()).
\* A key of a Map keeps the place of its first entry and the value of its last.
uniqueSessions(list) ==
  LET IsFirst(i) == \A j \in 1..(i - 1) : list[j].session_id # list[i].session_id
      LastOf(i) == CHOOSE k \in DOMAIN list :
                     /\ list[k].session_id = list[i].session_id
                     /\ \A j \in DOMAIN list :
                          list[j].session_id = list[i].session_id => j <= k
      keys == SelectSeq([i \in DOMAIN list |-> i], IsFirst)
  IN [n \in DOMAIN keys |-> list[LastOf(keys[n])]]

\* useSessionStore.refreshSessions: the filter, on the array.
activeSessions(list, time, includeEmpty) ==
  LET IsActive(s) == s.message_count > 0 \/ s.last_active > time - OneHour
  IN IF includeEmpty THEN list ELSE SelectSeq(list, IsActive)

\* useSessionStore.refreshSessions, the try block after getSessions resolved.
storeRefreshResolved(state, data, time, includeEmpty) ==
  [state EXCEPT !.sessions = activeSessions(uniqueSessions(data), time, includeEmpty),
                !.loading = FALSE]

\* A catch block of refreshSessions that sets nothing.
storeRefreshRejectedSilently(state) == state

\* useSessionStore.refreshSessions, the catch block.
storeRefreshRejected(state) == [state EXCEPT !.loading = FALSE]

\* useSessionStore.deleteSession after the request resolved, up to the await of
\* refreshSessions(): the comparison reads the store's currentSessionId then.
storeDeleteResolved(state, sessionId) ==
  [state EXCEPT !.currentSessionId = IF sessionId = @ THEN NoSession ELSE @,
                !.loading = TRUE]

\* A call once it has ended with the result: its slot is free again, and the
\* function called and its result stay as history.
Finished(call, result) == [IdleCall EXCEPT !.op = call.op, !.result = result]

\* The session ids of a list of SessionInfo.
IdsOf(list) == { list[i].session_id : i \in DOMAIN list }

\* What the actions of the session store leave alone.
SessionFrame == << UiVars, turns, sidebar, sessions, now, storeSessions, sidebarSessions,
                   engine, memory, chatStore, configStore, appConfig, sends >>

\* useSessionStore.createSession, up to the await of the POST.
SessionCreateStart(c) ==
  /\ sessionStore.calls[c].pc = "idle"
  /\ sessionStore' =
       [sessionStore EXCEPT !.loading = TRUE,
                            !.calls[c] = [IdleCall EXCEPT !.op = "createSession",
                                                          !.pc = "post"]]
  /\ UNCHANGED << SessionFrame, mockSessions, created >>

\* createSession: the POST resolved; refreshSessions() runs up to its await.
SessionCreatePosted(c, sameMs) ==
  /\ sessionStore.calls[c].pc = "post"
  /\ Len(mockSessions) < MaxListed
  /\ DateNowId(sameMs) <= MaxListed
  /\ sameMs => (created > Len(InitialMockSessions) /\ mockSessions # << >>
                /\ Head(mockSessions).last_active = now)
  /\ created' = DateNowId(sameMs)
  /\ mockSessions' = PostSessionNew(mockSessions, DateNowId(sameMs), now)
  /\ sessionStore' =
       [sessionStore EXCEPT !.loading = TRUE,
                            !.calls[c].pc = "get",
                            !.calls[c].id = DateNowId(sameMs)]
  /\ UNCHANGED SessionFrame

\* createSession: the POST rejected; the catch block rethrows.
SessionCreateFails(c) ==
  /\ sessionStore.calls[c].pc = "post"
  /\ sessionStore' =
       [sessionStore EXCEPT !.loading = FALSE,
                            !.calls[c] = Finished(@, "threw")]
  /\ UNCHANGED << SessionFrame, mockSessions, created >>

\* useSessionStore.refreshSessions(includeEmpty), up to the await of getSessions.
SessionRefreshStart(c, includeEmpty) ==
  /\ sessionStore.calls[c].pc = "idle"
  /\ sessionStore' =
       [sessionStore EXCEPT !.loading = TRUE,
                            !.calls[c] = [IdleCall EXCEPT !.op = "refreshSessions",
                                                          !.pc = "get",
                                                          !.includeEmpty = includeEmpty]]
  /\ UNCHANGED << SessionFrame, mockSessions, created >>

\* refreshSessions: getSessions resolved. The call that awaited it goes on:
\* createSession sets loading: false again and returns the id.
SessionGetDone(c) ==
  /\ sessionStore.calls[c].pc = "get"
  /\ sessionStore' =
       [storeRefreshResolved(sessionStore, mockSessions, now,
                             sessionStore.calls[c].includeEmpty)
          EXCEPT !.calls[c] = Finished(sessionStore.calls[c], "returned")]
  /\ UNCHANGED << SessionFrame, mockSessions, created >>

\* refreshSessions: getSessions rejected; the catch block swallows the error.
SessionGetFails(c) ==
  /\ sessionStore.calls[c].pc = "get"
  /\ sessionStore' =
       [storeRefreshRejected(sessionStore)
          EXCEPT !.calls[c] = Finished(sessionStore.calls[c], "returned")]
  /\ UNCHANGED << SessionFrame, mockSessions, created >>

\* useSessionStore.deleteSession(sessionId), up to the await of the DELETE.
SessionDeleteStart(c, id) ==
  /\ sessionStore.calls[c].pc = "idle"
  /\ sessionStore' =
       [sessionStore EXCEPT !.calls[c] = [IdleCall EXCEPT !.op = "deleteSession",
                                                          !.pc = "delete",
                                                          !.id = id]]
  /\ UNCHANGED << SessionFrame, mockSessions, created >>

\* deleteSession: the DELETE resolved; refreshSessions() runs up to its await.
SessionDeleteDone(c) ==
  /\ sessionStore.calls[c].pc = "delete"
  /\ mockSessions' = DeleteSession(mockSessions, sessionStore.calls[c].id)
  /\ sessionStore' =
       [storeDeleteResolved(sessionStore, sessionStore.calls[c].id)
          EXCEPT !.calls[c].pc = "get"]
  /\ UNCHANGED << SessionFrame, created >>

\* deleteSession: the DELETE rejected; the call rejects.
SessionDeleteFails(c) ==
  /\ sessionStore.calls[c].pc = "delete"
  /\ sessionStore' =
       [sessionStore EXCEPT !.calls[c] = Finished(@, "threw")]
  /\ UNCHANGED << SessionFrame, mockSessions, created >>

\* useSessionStore.updateSessionName(sessionId, name): the PUT resolved;
\* refreshSessions() runs up to its await.
SessionRename(c, id, name) ==
  /\ sessionStore.calls[c].pc = "idle"
  /\ mockSessions' = PutSessionName(mockSessions, id, name)
  /\ sessionStore' =
       [sessionStore EXCEPT !.loading = TRUE,
                            !.calls[c] = [IdleCall EXCEPT !.op = "updateSessionName",
                                                          !.pc = "get", !.id = id]]
  /\ UNCHANGED << SessionFrame, created >>

\* useSessionStore.switchSession(sessionId)
SessionSwitch(id) ==
  /\ sessionStore' = [sessionStore EXCEPT !.currentSessionId = id]
  /\ UNCHANGED << SessionFrame, mockSessions, created >>

\* An hour passes.
HourPasses ==
  /\ now + OneHour <= MaxClock
  /\ now' = now + OneHour
  /\ UNCHANGED << CoreVars, UiVars, turns, sidebar, sessions, created, mockSessions,
                  storeSessions, sidebarSessions >>

\* The calls of createSession and refreshSessions in the slots C.
SessionNext(C) ==
  \/ \E c \in C : SessionCreateStart(c)
  \/ \E c \in C, sameMs \in BOOLEAN : SessionCreatePosted(c, sameMs)
  \/ \E c \in C : SessionCreateFails(c)
  \/ \E c \in C, includeEmpty \in BOOLEAN : SessionRefreshStart(c, includeEmpty)
  \/ \E c \in C : SessionGetDone(c)
  \/ \E c \in C : SessionGetFails(c)

\* The calls of deleteSession in the slots C.
SessionDeletes(C) ==
  \/ \E c \in C, id \in IdsOf(sessionStore.sessions) : SessionDeleteStart(c, id)
  \/ \E c \in C : SessionDeleteDone(c)
  \/ \E c \in C : SessionDeleteFails(c)

\* One call at a time.
SoloCallIds == { CHOOSE c \in CallIds : TRUE }

\* The session store over the mock server, one call at a time, with renaming,
\* switching and the passing of time.
NextSessionStore ==
  \/ SessionNext(SoloCallIds)
  \/ SessionDeletes(SoloCallIds)
  \/ \E c \in SoloCallIds, id \in IdsOf(sessionStore.sessions) :
       SessionRename(c, id, "new-name")
  \/ \E id \in IdsOf(sessionStore.sessions) \cup {NoSession} : SessionSwitch(id)
  \/ HourPasses

\* The session store over the mock server, with calls that overlap.
NextSessionCalls == SessionNext(CallIds)

SpecSessionStore == Init /\ [][NextSessionStore]_vars

SpecSessionCalls == Init /\ [][NextSessionCalls]_vars

\* ----------------------------------------------------------- the model state
\* What GET /api/models answers: the mock handler's list, a longer list, a
\* success flag that is false, and an empty list.
ModelResponses ==
  { [success |-> TRUE, models |-> << "gpt-4o-mini" >>],
    [success |-> TRUE, models |-> << "deepseek-chat", "gpt-4o-mini" >>],
    [success |-> FALSE, models |-> << "gpt-4o-mini" >>],
    [success |-> TRUE, models |-> << >>] }

ModelIds == { "gpt-4o-mini", "deepseek-chat" }

\* useConfigStore.loadModels, the try block after getAvailableModels resolved.
storeLoadModelsResolved(state, data) ==
  IF data.success /\ Len(data.models) > 0
    THEN [state EXCEPT !.availableModels = data.models,
                       !.currentModelId = data.models[1],
                       !.loadingModels = FALSE]
    ELSE state

\* The catch block of loadModels, of the store and of the provider (whose
\* finally block sets loadingModels after it).
loadModelsRejected(state) ==
  [state EXCEPT !.availableModels = << "gpt-4o-mini" >>,
                !.currentModelId = "gpt-4o-mini",
                !.loadingModels = FALSE]

\* AppProvider's loadModels, the try block after getAvailableModels resolved,
\* and the finally block.
contextLoadModelsResolved(state, data) ==
  LET loaded == IF data.success /\ Len(data.models) > 0
                  THEN [state EXCEPT !.availableModels = data.models,
                                     !.currentModelId = data.models[1]]
                  ELSE state
  IN [loaded EXCEPT !.loadingModels = FALSE]

\* The setSessionModel request of a setCurrentModelId, sent for the session.
SendSetSessionModel(state, session, modelId) ==
  [state EXCEPT !.sent = Append(@, [session |-> session, modelId |-> modelId]),
                !.setModel = [pc |-> "put", modelId |-> modelId, session |-> session,
                              result |-> "none"]]

\* setCurrentModelId has returned.
SetModelReturned(state) ==
  [state EXCEPT !.setModel = [pc |-> "idle", modelId |-> @.modelId,
                              session |-> NoSession, result |-> "returned"]]

\* What the actions on the model state of the store leave alone.
ConfigFrame == << UiVars, turns, sidebar, sessions, created, ListVars,
                  engine, memory, chatStore, sessionStore, appConfig, sends >>

\* What the actions on the model state of the provider leave alone.
AppConfigFrame == << UiVars, turns, sidebar, sessions, created, ListVars,
                     engine, memory, chatStore, sessionStore, configStore, sends >>

\* useConfigStore.loadModels, up to the await of getAvailableModels.
ConfigLoadModels ==
  /\ configStore.load # "get"
  /\ configStore' = [configStore EXCEPT !.loadingModels = TRUE, !.load = "get",
                                        !.called = "loadModels"]
  /\ UNCHANGED ConfigFrame

\* loadModels: getAvailableModels resolved with data.
ConfigModelsResolved(data) ==
  /\ configStore.load = "get"
  /\ configStore' = [storeLoadModelsResolved(configStore, data) EXCEPT !.load = "done"]
  /\ UNCHANGED ConfigFrame

\* loadModels: getAvailableModels rejected.
ConfigModelsRejected ==
  /\ configStore.load = "get"
  /\ configStore' = [loadModelsRejected(configStore) EXCEPT !.load = "done"]
  /\ UNCHANGED ConfigFrame

\* useConfigStore.setCurrentModelId(modelId), up to the await of the import.
ConfigSetCurrentModelId(modelId) ==
  /\ configStore.setModel.pc = "idle"
  /\ Len(configStore.sent) < MaxRequests
  /\ configStore' =
       IF configStore.currentModelId = modelId
         THEN [configStore EXCEPT !.called = "setCurrentModelId"]
         ELSE [configStore EXCEPT !.currentModelId = modelId,
                                  !.called = "setCurrentModelId",
                                  !.setModel = [pc |-> "import", modelId |-> modelId,
                                                session |-> NoSession,
                                                result |-> "none"]]
  /\ UNCHANGED ConfigFrame

\* setCurrentModelId: the session store is imported and its currentSessionId
\* read; with a session the request is sent, without one the call returns.
ConfigSessionRead ==
  /\ configStore.setModel.pc = "import"
  /\ configStore' =
       IF sessionStore.currentSessionId # NoSession
         THEN SendSetSessionModel(configStore, sessionStore.currentSessionId,
                                  configStore.setModel.modelId)
         ELSE SetModelReturned(configStore)
  /\ UNCHANGED ConfigFrame

\* setCurrentModelId: setSessionModel resolved, or rejected and logged.
ConfigPutEnds(rejected) ==
  /\ configStore.setModel.pc = "put"
  /\ configStore' = SetModelReturned(configStore)
  /\ UNCHANGED ConfigFrame

\* AppProvider: the loadModels of the effect that runs once, up to its await.
AppLoadModels ==
  /\ appConfig.load = "idle"
  /\ appConfig' = [appConfig EXCEPT !.loadingModels = TRUE, !.load = "get",
                                    !.called = "loadModels"]
  /\ UNCHANGED AppConfigFrame

AppModelsResolved(data) ==
  /\ appConfig.load = "get"
  /\ appConfig' = [contextLoadModelsResolved(appConfig, data) EXCEPT !.load = "done"]
  /\ UNCHANGED AppConfigFrame

AppModelsRejected ==
  /\ appConfig.load = "get"
  /\ appConfig' = [loadModelsRejected(appConfig) EXCEPT !.load = "done"]
  /\ UNCHANGED AppConfigFrame

\* AppProvider.handleSetCurrentModelId(modelId), the setCurrentModelId of the
\* context, up to its await: currentSessionId is the one of the render.
AppSetCurrentModelId(modelId) ==
  /\ appConfig.setModel.pc = "idle"
  /\ Len(appConfig.sent) < MaxRequests
  /\ LET set == [appConfig EXCEPT !.currentModelId = modelId,
                                  !.called = "setCurrentModelId"]
     IN appConfig' =
          IF currentSessionId # NoSession
            THEN SendSetSessionModel(set, currentSessionId, modelId)
            ELSE [SetModelReturned(set) EXCEPT !.setModel.modelId = modelId]
  /\ UNCHANGED AppConfigFrame

\* handleSetCurrentModelId: setSessionModel resolved, or rejected and logged.
AppPutEnds(rejected) ==
  /\ appConfig.setModel.pc = "put"
  /\ appConfig' = SetModelReturned(appConfig)
  /\ UNCHANGED AppConfigFrame

\* The model state of the store and of the provider, with the current session
\* of each.
NextConfig ==
  \/ ConfigLoadModels
  \/ \E data \in ModelResponses : ConfigModelsResolved(data)
  \/ ConfigModelsRejected
  \/ \E modelId \in ModelIds : ConfigSetCurrentModelId(modelId)
  \/ ConfigSessionRead
  \/ \E rejected \in BOOLEAN : ConfigPutEnds(rejected)
  \/ AppLoadModels
  \/ \E data \in ModelResponses : AppModelsResolved(data)
  \/ AppModelsRejected
  \/ \E modelId \in ModelIds : AppSetCurrentModelId(modelId)
  \/ \E rejected \in BOOLEAN : AppPutEnds(rejected)
  \/ \E id \in SessionIds \cup {NoSession} : SessionSwitch(id)
  \/ LoadSessions
  \/ \E id \in SessionIds : SelectSession(id)

SpecConfig == Init /\ [][NextConfig]_vars

\* ------------------------------------------------------------ useSendMessage
\* sendMessage from addMessage(userMessage) to setStreaming(true).
sendStart(state, t, sessionId, time) ==
  Called([storeStartThinking(
            storeAddMessage(state, Msg("user", << "q" >>, Empty, sessionId, t)), time)
            EXCEPT !.isStreaming = TRUE],
         "setStreaming")

\* setStreaming(false); stopThinking(); resetStreamingState(): the end of
\* onComplete, the whole of onError and of the catch block.
sendEnd(state) ==
  Called(storeResetStreamingState(storeStopThinking([state EXCEPT !.isStreaming = FALSE])),
         "resetStreamingState")

\* The finalMessage of onComplete: the buffers of the store as they are then.
finalMessage(state, t) ==
  Msg("assistant", state.streamingMessage, state.streamingReasoning,
      sends[t].sessionId, t)

\* The text a stream carries is the text of its own turn: every token of a
\* fragment goes with the turn whose stream it came in.
OfTurn(text, t) == [k \in DOMAIN text |-> << text[k], t >>]

\* The callbacks sendMessage passes to fetchStreamChat, on the chat store.
sendCallback(state, t, d) ==
  CASE d.cb = "onChunk" ->
         Called(storeUpdateStreamingMessage(state, OfTurn(d.arg, t)),
                "updateStreamingMessage")
    [] d.cb = "onReasoning" ->
         Called(storeUpdateStreamingReasoning(state, OfTurn(d.arg, t)),
                "updateStreamingReasoning")
    [] d.cb = "onReasoningStart" -> Called(storeStartThinking(state, now), "startThinking")
    [] d.cb = "onReasoningEnd" -> Called(storeStopThinking(state), "stopThinking")
    [] d.cb = "onComplete" -> sendEnd(storeAddMessage(state, finalMessage(state, t)))
    [] d.cb = "onError" -> sendEnd(state)
    [] OTHER -> state

\* The history of sendMessage t after the callback: the fragments its stream
\* delivered, the message its onComplete added, and its position.
sendAfter(state, t, d) ==
  [sends[t] EXCEPT
     !.content = IF d.cb = "onChunk" THEN @ \o OfTurn(d.arg, t) ELSE @,
     !.reasoning = IF d.cb = "onReasoning" THEN @ \o OfTurn(d.arg, t) ELSE @,
     !.stored = IF d.cb = "onComplete" THEN Append(@, finalMessage(state, t)) ELSE @,
     !.pc = IF d.ret THEN "done" ELSE @,
     !.result = IF d.ret THEN "returned" ELSE @]

\* The refreshSessions() that onComplete starts and does not await: it runs
\* in a free slot of the store's calls, up to its await.
startRefresh(state) ==
  LET free == { c \in CallIds : state.calls[c].pc = "idle" } IN
  IF free = {} THEN [state EXCEPT !.loading = TRUE]
  ELSE [state EXCEPT !.loading = TRUE,
                     !.calls[CHOOSE c \in free : \A other \in free : c <= other] =
                        [IdleCall EXCEPT !.op = "refreshSessions", !.pc = "get"]]

\* What a sendMessage leaves alone.
SendFrame == << UiVars, turns, sidebar, sessions, now, storeSessions, sidebarSessions,
                engine, memory, configStore, appConfig >>

\* useSendMessage.sendMessage(content): there is no test of isStreaming. With a
\* current session it runs to the await of fetchStreamChat, without one to the
\* await in createSession.
SendMessage(t) ==
  /\ sends[t].pc = "idle"
  /\ IF sessionStore.currentSessionId = NoSession
       THEN /\ sends' = [sends EXCEPT ![t].pc = "post"]
            /\ sessionStore' = [sessionStore EXCEPT !.loading = TRUE]
            /\ UNCHANGED chatStore
       ELSE /\ sends' = [sends EXCEPT ![t].pc = "fetch",
                                      ![t].sessionId = sessionStore.currentSessionId]
            /\ chatStore' = sendStart(chatStore, t, sessionStore.currentSessionId, now)
            /\ UNCHANGED sessionStore
  /\ UNCHANGED << SendFrame, mockSessions, created >>

\* createSession of sendMessage: the POST resolved; refreshSessions() runs up
\* to its await.
SendPosted(t, sameMs) ==
  /\ sends[t].pc = "post"
  /\ Len(mockSessions) < MaxListed
  /\ DateNowId(sameMs) <= MaxListed
  /\ sameMs => (created > Len(InitialMockSessions) /\ mockSessions # << >>
                /\ Head(mockSessions).last_active = now)
  /\ created' = DateNowId(sameMs)
  /\ mockSessions' = PostSessionNew(mockSessions, DateNowId(sameMs), now)
  /\ sessionStore' = [sessionStore EXCEPT !.loading = TRUE]
  /\ sends' = [sends EXCEPT ![t].pc = "get", ![t].sessionId = DateNowId(sameMs)]
  /\ UNCHANGED << SendFrame, chatStore >>

\* createSession of sendMessage threw: sendMessage rejects, outside its try block.
SendCreateFails(t) ==
  /\ sends[t].pc = "post"
  /\ sessionStore' = [sessionStore EXCEPT !.loading = FALSE]
  /\ sends' = [sends EXCEPT ![t].pc = "done", ![t].result = "threw"]
  /\ UNCHANGED << SendFrame, chatStore, mockSessions, created >>

\* createSession of sendMessage returned, its refresh resolved or not: then
\* setCurrentSessionId(sessionId) and the segment up to the await of fetchStreamChat.
SendCreated(t, refreshed) ==
  /\ sends[t].pc = "get"
  /\ sessionStore' =
       [(IF refreshed THEN storeRefreshResolved(sessionStore, mockSessions, now, FALSE)
                      ELSE storeRefreshRejected(sessionStore))
          EXCEPT !.currentSessionId = sends[t].sessionId]
  /\ chatStore' = sendStart(chatStore, t, sends[t].sessionId, now)
  /\ sends' = [sends EXCEPT ![t].pc = "fetch"]
  /\ UNCHANGED << SendFrame, mockSessions, created >>

\* fetchStreamChat of sendMessage: the response is ok and carries stream s.
SendFetched(t, s) ==
  /\ sends[t].pc = "fetch"
  /\ sends' = [sends EXCEPT ![t].pc = "read", ![t].streamId = s, ![t].pos = 0]
  /\ UNCHANGED << SendFrame, chatStore, sessionStore, mockSessions, created >>

\* fetchStreamChat of sendMessage: the request or a read failed: onError and return.
SendFails(t) ==
  /\ sends[t].pc \in {"fetch", "read"}
  /\ chatStore' = sendEnd(chatStore)
  /\ sends' = [sends EXCEPT ![t].pc = "done", ![t].result = "returned"]
  /\ UNCHANGED << SendFrame, sessionStore, mockSessions, created >>

\* fetchStreamChat of sendMessage: the next data line of the stream, or the end
\* of the stream, which calls onComplete.
SendRead(t) ==
  /\ sends[t].pc = "read"
  /\ LET stream == Streams[sends[t].streamId]
         pos == sends[t].pos
         d == IF pos = Len(stream)
                THEN [cb |-> "onComplete", arg |-> Empty, ret |-> TRUE]
                ELSE Dispatch(stream[pos + 1])
     IN /\ chatStore' = sendCallback(chatStore, t, d)
        /\ sends' = [sends EXCEPT ![t] = [sendAfter(chatStore, t, d)
                                            EXCEPT !.pos = IF pos = Len(stream) THEN pos
                                                           ELSE pos + 1]]
        /\ sessionStore' = IF d.cb = "onComplete" THEN startRefresh(sessionStore)
                           ELSE sessionStore
  /\ UNCHANGED << SendFrame, mockSessions, created >>

\* The sendMessage calls T over the two stores, with the refreshes they start.
SendNext(T) ==
  \/ \E t \in T : SendMessage(t)
  \/ \E t \in T, sameMs \in BOOLEAN : SendPosted(t, sameMs)
  \/ \E t \in T : SendCreateFails(t)
  \/ \E t \in T, refreshed \in BOOLEAN : SendCreated(t, refreshed)
  \/ \E t \in T, s \in StreamIds : SendFetched(t, s)
  \/ \E t \in T : SendFails(t)
  \/ \E t \in T : SendRead(t)
  \/ \E c \in CallIds : SessionGetDone(c)
  \/ \E c \in CallIds : SessionGetFails(c)

\* sendMessage calls that overlap.
NextSends == SendNext(TurnIds)

SpecSends == Init /\ [][NextSends]_vars


\* ------------------------------------------------------------------ claims
Stopped(t) == \E i \in DOMAIN turns[t].log : turns[t].log[i] = "stop"

Delivered(t, cb) == \E i \in DOMAIN turns[t].log : turns[t].log[i] = cb

Count(t, cb) == Cardinality({ i \in DOMAIN turns[t].log : turns[t].log[i] = cb })

\* Every message held anywhere: the displayed list and the lists of the cache.
StoredMessages ==
  { messages[i] : i \in DOMAIN messages } \cup
  UNION { { sessionMessages[k][i] : i \in DOMAIN sessionMessages[k] } :
            k \in DOMAIN sessionMessages }

\* C1: for every session, at most one turn is in flight at any time: a send for
\* a session that has an unfinished turn does not proceed next to it.
C1_OneTurnInFlightPerSession ==
  \A a, b \in TurnIds :
    (a # b /\ InFlight(a) /\ InFlight(b) /\ turns[a].sessionId # NoSession)
      => turns[a].sessionId # turns[b].sessionId

\* The event grammar: session_id, reasoning_start, reasoning_chunk*, reasoning_end,
\* answer_start, chunk+, done, or a prefix of it closed by error.
GrammarStep(q, type) ==
  IF q \in {"end", "failed", "bad"} THEN "bad"
  ELSE IF type = "error" THEN "failed"
  ELSE IF q = "start" /\ type = "session_id" THEN "session"
  ELSE IF q = "session" /\ type = "reasoning_start" THEN "reasoning"
  ELSE IF q = "reasoning" /\ type = "reasoning_chunk" THEN "reasoning"
  ELSE IF q = "reasoning" /\ type = "reasoning_end" THEN "reasoned"
  ELSE IF q = "reasoned" /\ type = "answer_start" THEN "answering"
  ELSE IF q = "answering" /\ type = "chunk" THEN "answered"
  ELSE IF q = "answered" /\ type = "chunk" THEN "answered"
  ELSE IF q = "answered" /\ type = "done" THEN "end"
  ELSE "bad"

RECURSIVE GrammarRun(_, _)
GrammarRun(q, evs) ==
  IF evs = << >> THEN q ELSE GrammarRun(GrammarStep(q, Head(evs).type), Tail(evs))

ServedByMock(t) ==
  turns[t].streamId # 0 /\ Streams[turns[t].streamId] = MockStreamEvents

\* C2: the events the mock handler of POST /api/chat/stream emits for a turn are,
\* as far as the turn has read them, a prefix of the grammar's sequence, and the
\* whole stream is session_id, reasoning_start, reasoning_chunk*, reasoning_end,
\* answer_start, chunk+, done in that order, or such a prefix closed by error.
C2_StreamGrammar ==
  \A t \in TurnIds :
    ServedByMock(t) =>
      LET stream == Streams[turns[t].streamId] IN
      /\ GrammarRun("start", SubSeq(stream, 1, turns[t].pos)) # "bad"
      /\ GrammarRun("start", stream) \in {"end", "failed"}

\* C2's case: a turn has read the mock handler's whole stream and completed on it.
C2_Witness ==
  \E t \in TurnIds :
    /\ ServedByMock(t)
    /\ turns[t].pc = "done"
    /\ turns[t].pos = Len(MockStreamEvents)
    /\ Delivered(t, "onComplete")

\* C3: once a turn has received an event of type error, whatever fields it
\* carries, no chunk, reasoning or completion of that turn is delivered.
C3_ErrorIsTerminal ==
  \A t \in TurnIds :
    \A i, j \in DOMAIN turns[t].log :
      (turns[t].log[i] = "recv_error" /\ i < j)
        => turns[t].log[j] \notin {"onChunk", "onReasoning", "onComplete"}

\* C4: once Stop was acknowledged while the chunks of a turn were being
\* streamed, no further chunk and no completion of that turn is delivered.
C4_NoDeliveryAfterStop ==
  \A t \in TurnIds :
    \A h, i, j \in DOMAIN turns[t].log :
      (h < i /\ i < j /\ turns[t].log[h] = "onChunk" /\ turns[t].log[i] = "stop")
        => turns[t].log[j] \notin {"onChunk", "onComplete"}

\* C5: a message produced in one session is never in the displayed list while
\* another session is current, and never in the cached list of another session.
C5_SessionIsolation ==
  /\ \A i \in DOMAIN messages : messages[i].sid = currentSessionId
  /\ \A k \in DOMAIN sessionMessages :
       \A i \in DOMAIN sessionMessages[k] : sessionMessages[k][i].sid = k

\* C6: after a turn was cancelled, a later send on its session runs alone: no
\* part of the cancelled turn is still running next to it.
C6_CancelledTurnIsOver ==
  \A a, b \in TurnIds :
    (a # b /\ Stopped(a) /\ ~Stopped(b) /\ InFlight(b)
       /\ turns[b].sessionId = turns[a].sessionId)
      => ~InFlight(a)

\* C7: a turn that failed has delivered exactly one error and no completion, and
\* nothing of it is recorded in the history.
C7_FailedTurnLeavesHistory ==
  \A t \in TurnIds :
    (turns[t].pc = "done" /\ Delivered(t, "onError"))
      => /\ Count(t, "onError") = 1
         /\ ~Delivered(t, "onComplete")
         /\ \A m \in StoredMessages : m.turn # t

\* The text streamed in the events of one type, in order.
RECURSIVE Streamed(_, _)
Streamed(evs, type) ==
  IF evs = << >> THEN << >>
  ELSE (IF Head(evs).type = type THEN Head(evs).content ELSE << >>)
         \o Streamed(Tail(evs), type)

\* The reasoning text with every chunk closed by a line feed.
RECURSIVE StreamedLines(_)
StreamedLines(evs) ==
  IF evs = << >> THEN << >>
  ELSE (IF Head(evs).type = "reasoning_chunk" /\ Head(evs).content # << >>
          THEN Head(evs).content \o <<"\n">> ELSE << >>)
         \o StreamedLines(Tail(evs))

\* The assistant messages stored by the completion of a turn.
CompletionMessages == { m \in StoredMessages : m.role = "assistant" /\ m.turn # 0 }

ListingRule(listed, includeEmpty) ==
  \A i \in DOMAIN mockSessions :
    LET s == mockSessions[i] IN
    /\ includeEmpty => s.session_id \in listed
    /\ s.message_count > 0 => s.session_id \in listed
    /\ (s.message_count = 0 /\ now - s.last_active < OneHour) => s.session_id \in listed
    /\ (s.message_count = 0 /\ now - s.last_active > OneHour /\ ~includeEmpty)
         => s.session_id \notin listed

\* C9: every session listing keeps the sessions with messages, keeps a
\* zero-message session created within the last hour, lists every session with
\* includeEmpty, and without it drops a zero-message session older than the hour.
C9_ListingRule ==
  [][ /\ \A b \in BOOLEAN : RefreshSessions(b) => ListingRule(sessions', b)
      /\ \A b \in BOOLEAN : StoreRefreshSessions(b) => ListingRule(storeSessions', b)
      /\ SidebarLoadSessions => ListingRule(sidebarSessions', FALSE) ]_vars

\* C10: after updateSessionName(id, name) the server reports the given name for
\* that session and the names it had for the others, and the same call again
\* changes nothing.
C10_RenameEffective ==
  [][ \A id \in 1..MaxListed, name \in SessionNames :
        StoreUpdateSessionName(id, name) =>
          /\ \A i \in DOMAIN mockSessions :
               mockSessions'[i].name =
                 IF mockSessions[i].session_id = id THEN name ELSE mockSessions[i].name
          /\ PutSessionName(mockSessions', id, name) = mockSessions' ]_vars

\* The messages the cache keeps for session k (none: the empty list).
Kept(cache, k) == IF k \in DOMAIN cache THEN cache[k] ELSE << >>

\* C11: switching away from a session keeps the messages it displays for it,
\* switching to a session shows the messages kept for it, and the messages kept
\* for a session that is not the current one do not change: a switch away and
\* back shows exactly the messages the session had, in order.
C11_SwitchRoundTrip ==
  [][ /\ \A id \in SessionIds :
           (SwitchSession(id) /\ id # currentSessionId) =>
             /\ messages' = Kept(sessionMessages, id)
             /\ (currentSessionId # NoSession /\ messages # << >>) =>
                  Kept(sessionMessages', currentSessionId) = messages
      /\ \A k \in SessionIds :
           (k # currentSessionId /\ k # currentSessionId') =>
             Kept(sessionMessages', k) = Kept(sessionMessages, k) ]_vars

\* Everything the effect on [currentSessionId] resets is at its initial value.
StreamingStateCleared ==
  /\ streamingMessage = Empty
  /\ streamingReasoning = Empty
  /\ error = Empty
  /\ ~waitingForResponse
  /\ ~isThinking
  /\ ~isStreaming
  /\ ~stopStreaming

\* Streaming output is on display only if a turn was sent in the current session.
StreamingOutputIsOfCurrentSession ==
  (streamingMessage # Empty \/ streamingReasoning # Empty \/ isThinking)
    => \E t \in TurnIds : turns[t].pc # "idle" /\ turns[t].sessionId = currentSessionId

\* C12: whenever the current session changes the streaming state is cleared, and
\* afterwards no output of a stream started in another session is streaming
\* output of the current session.
C12_StreamingStateFollowsSession ==
  [][ /\ currentSessionId' # currentSessionId => StreamingStateCleared'
      /\ StreamingOutputIsOfCurrentSession' ]_vars

\* The SessionInfo the server holds for id.
SessionInfoOf(list, id) == list[CHOOSE i \in DOMAIN list : list[i].session_id = id]

\* C13: only the first message sent in a session names it: a message sent in a
\* session that already holds messages leaves the session's name unchanged.
C13_OnlyFirstMessageNames ==
  [][ \A t \in TurnIds :
        (HandleSend(t) /\ currentSessionId # NoSession
           /\ SessionInfoOf(mockSessions, currentSessionId).message_count > 0)
          => SessionInfoOf(mockSessions', currentSessionId).name
               = SessionInfoOf(mockSessions, currentSessionId).name ]_vars

\* C14: createSession allocates a fresh identifier: the id of the new session
\* differs from the id of every session the server holds at that moment, and
\* the new session has no messages.
C14_FreshSessionId ==
  [][ \A sameMs \in BOOLEAN :
        StoreCreateSession(sameMs) =>
          /\ \A i \in DOMAIN mockSessions :
               mockSessions[i].session_id # Head(mockSessions').session_id
          /\ Head(mockSessions').message_count = 0 ]_vars

\* C15: the reasoning loop makes at most MaxSteps Thought/Action/Observation
\* iterations whatever the model decides: every iteration appends one Reasoning
\* Step, the loop is in Thinking, Acting or Observing only with budget left, and
\* the turn fails only on a failed LLM call, never on the budget.
C15_StepBudgetForcesAnswering ==
  /\ Len(engine.steps) <= MaxSteps
  /\ \A i \in DOMAIN engine.steps : engine.steps[i].index = i
  /\ engine.state \in {"Thinking", "Acting", "Observing"}
       => Len(engine.steps) < MaxSteps
  /\ engine.state = "Failed" => engine.call.status = "failed"

\* The budget is used up by a model that never chose to respond, and the engine
\* is in Answering with the steps it has.
C15_Witness ==
  /\ engine.state = "Answering"
  /\ Len(engine.steps) = MaxSteps
  /\ engine.action # Respond

\* The ToolErrors among the Observations of the Reasoning Steps, in order.
IsToolError(o) == o \in ToolErrors

ObservedToolErrors(e) ==
  SelectSeq([i \in DOMAIN e.steps |-> e.steps[i].observation], IsToolError)

\* C16: a tool failure never aborts the turn: every ToolError the executor
\* raised is the Observation of a Reasoning Step (the last one as soon as
\* Observing has run), an error event and the Failed state come only from a
\* failed LLM call, and a finished turn ends its events with answer, done.
C16_ToolErrorsAreObservations ==
  /\ engine.raised =
       IF engine.state = "Observing" /\ engine.result \in ToolErrors
         THEN Append(ObservedToolErrors(engine), engine.result)
         ELSE ObservedToolErrors(engine)
  /\ (\E i \in DOMAIN engine.events : engine.events[i] = "error")
       => engine.state = "Failed" /\ engine.call.status = "failed"
  /\ engine.state = "Failed" => engine.call.status = "failed"
  /\ engine.state = "Finished" =>
       /\ Len(engine.events) >= 2
       /\ SubSeq(engine.events, Len(engine.events) - 1, Len(engine.events))
            = << "answer", "done" >>

\* A turn in which every step was a tool failure, one of them for malformed
\* arguments, has finished with its answer.
C16_Witness ==
  /\ engine.state = "Finished"
  /\ Len(engine.raised) = MaxSteps
  /\ \E i \in DOMAIN engine.raised : engine.raised[i] = "InvalidArguments"
  /\ engine.events[Len(engine.events)] = "done"

\* The exchanges of a session are numbered in the order recordExchange got them.
\* C17: Working Memory holds at most MaxWorkingMemory exchanges, and they are
\* the most recent ones in chronological order (the oldest is the one evicted);
\* the context built for a turn carries exactly these, so once more exchanges
\* than the capacity are recorded the oldest ones are absent from it.
C17_WorkingMemoryFifo ==
  LET n == memory.recorded
      kept == IF n < MaxWorkingMemory THEN n ELSE MaxWorkingMemory
      built == IF engine.state = "Started" THEN buildContext(memory)
                                           ELSE engine.context
  IN /\ Len(memory.working) <= MaxWorkingMemory
     /\ Len(memory.working) = kept
     /\ \A i \in DOMAIN memory.working : memory.working[i] = n - kept + i
     /\ built.working = memory.working
     /\ \A i \in DOMAIN built.working : built.working[i] > n - MaxWorkingMemory

\* One exchange more than the capacity is recorded and the next turn has built
\* its context: the first exchange is gone from it.
C17_Witness ==
  /\ memory.recorded = MaxWorkingMemory + 1
  /\ engine.state = "Thinking"
  /\ Len(engine.context.working) = MaxWorkingMemory
  /\ \A i \in DOMAIN engine.context.working : engine.context.working[i] # 1

\* The number of exchanges an entry of the given score survives without an
\* upsert (at most one per hundredth of score).
RECURSIVE DecaysToPrune(_, _)
DecaysToPrune(score, fuel) ==
  IF score < PruningFloor \/ fuel = 0 THEN 0
  ELSE 1 + DecaysToPrune(decay(score), fuel - 1)

\* C18: with each recorded exchange the score of every Long-Term entry that is
\* not upserted by it gets strictly smaller; an entry whose score falls under
\* the floor is removed, so that no kept entry is under the floor and none has
\* gone without an upsert for as long as the decay takes to reach the floor;
\* the contexts built afterwards name kept entries only.
C18_DecayAndPruning ==
  [][ /\ memory'.recorded # memory.recorded =>
           \A k \in DOMAIN memory.longTerm \cap DOMAIN memory'.longTerm :
             memory'.longTerm[k].age # 0 =>
               memory'.longTerm[k].score < memory.longTerm[k].score
      /\ \A k \in DOMAIN memory'.longTerm :
           /\ memory'.longTerm[k].score >= PruningFloor
           /\ memory'.longTerm[k].age < DecaysToPrune(InitialScore, InitialScore)
      /\ memory'.pruned \cap DOMAIN memory'.longTerm = {}
      /\ LET built == IF engine'.state = "Started" THEN buildContext(memory')
                                                   ELSE engine'.context
         IN \A i \in DOMAIN built.longTerm :
              built.longTerm[i] \in DOMAIN memory'.longTerm ]_vars

\* An entry was removed by the last recordExchange, and the next turn has
\* built its context without it while another entry is still kept.
C18_Witness ==
  /\ memory.pruned # {}
  /\ memory.longTerm # << >>
  /\ engine.state = "Thinking"
  /\ \A i \in DOMAIN engine.context.longTerm :
       engine.context.longTerm[i] \notin memory.pruned

\* C19: a call of the LLM client makes at most MaxAttempts attempts; an attempt
\* is made again only after a TransientProviderError; any other error ends the
\* call at the attempt that met it; a transient error ends the call only at the
\* last attempt, and is otherwise not surfaced.
C19_RetryOnlyTransient ==
  LET c == engine.call
      n == Len(c.outcomes)
  IN /\ c.attempts = n
     /\ n <= MaxAttempts
     /\ \A i \in 1..(n - 1) : c.outcomes[i] = "TransientProviderError"
     /\ c.status = "failed" =>
          /\ n > 0
          /\ c.error = c.outcomes[n]
          /\ c.error \in LlmErrors
          /\ c.error = "TransientProviderError" => n = MaxAttempts
     /\ n > 0 =>
          /\ c.outcomes[n] \in LlmErrors \ {"TransientProviderError"}
               => c.status = "failed"
          /\ (c.outcomes[n] = "TransientProviderError" /\ n < MaxAttempts)
               => c.status = "pending"
          /\ c.outcomes[n] = "ok" => c.status = "ok"

\* A call whose attempts all met a TransientProviderError has surfaced it.
C19_Witness ==
  /\ engine.call.status = "failed"
  /\ engine.call.error = "TransientProviderError"
  /\ engine.call.attempts = MaxAttempts
  /\ engine.state = "Failed"

\* C20: addMessage appends: the list after the call is one longer, its earlier
\* messages are the list before the call in the same order, and its last
\* message is the added one.
C20_AddMessageAppends ==
  [][ \A message \in StoreMessagePool :
        StoreAddMessage(message) =>
          /\ Len(chatStore'.messages) = Len(chatStore.messages) + 1
          /\ SubSeq(chatStore'.messages, 1, Len(chatStore.messages))
               = chatStore.messages
          /\ chatStore'.messages[Len(chatStore'.messages)] = message ]_vars

\* As many addMessage calls as the list may hold, after the initial state,
\* ended with the assistant's message, the first user message still in front.
C20_Witness ==
  /\ Len(chatStore.messages) = MaxMessages
  /\ chatStore.messages[1] = [role |-> "user", content |-> "First"]
  /\ chatStore.messages[Len(chatStore.messages)]
       = [role |-> "assistant", content |-> "Hello!"]

\* C21: updateStreamingMessage and updateStreamingReasoning accumulate: the
\* buffer after the call is the buffer before it followed by the fragment, and
\* the other buffer and the message list are as before.
C21_StreamingBuffersAccumulate ==
  [][ \A content \in StoreFragments :
        /\ StoreUpdateStreamingMessage(content) =>
             /\ chatStore'.streamingMessage = chatStore.streamingMessage \o content
             /\ chatStore'.streamingReasoning = chatStore.streamingReasoning
             /\ chatStore'.messages = chatStore.messages
        /\ StoreUpdateStreamingReasoning(content) =>
             /\ chatStore'.streamingReasoning = chatStore.streamingReasoning \o content
             /\ chatStore'.streamingMessage = chatStore.streamingMessage
             /\ chatStore'.messages = chatStore.messages ]_vars

\* 'Hello' then ' World' were passed: the buffer reads 'Hello World', beside a
\* reasoning buffer and a message list that are not empty.
C21_Witness ==
  /\ chatStore.called = "updateStreamingMessage"
  /\ chatStore.streamingMessage = << "Hello", " World" >>
  /\ chatStore.streamingReasoning # Empty
  /\ chatStore.messages # << >>

\* C22: right after reset the store holds its initial values, whatever it held
\* before: no message, empty buffers, not streaming, not thinking, no start
\* time, no elapsed time, no error, no expanded flag.
C22_ResetRestoresInitialState ==
  chatStore.called = "reset" =>
    /\ chatStore.messages = << >>
    /\ chatStore.streamingMessage = Empty
    /\ chatStore.streamingReasoning = Empty
    /\ ~chatStore.isStreaming
    /\ ~chatStore.isThinking
    /\ chatStore.thinkingStartTime = << >>
    /\ chatStore.thinkingElapsed = 0
    /\ chatStore.error = << >>
    /\ DOMAIN chatStore.reasoningExpanded = {}

\* reset was the last action called.
C22_Witness ==
  /\ chatStore.called = "reset"
  /\ chatStore.messages = << >>

\* C23: in the chat store isThinking is true exactly when thinkingStartTime is
\* not null; right after startThinking both say thinking, right after
\* stopThinking neither does.
C23_ThinkingHasStartTime ==
  /\ chatStore.isThinking <=> chatStore.thinkingStartTime # << >>
  /\ chatStore.called = "startThinking" =>
       chatStore.isThinking /\ Len(chatStore.thinkingStartTime) = 1
  /\ chatStore.called = "stopThinking" =>
       ~chatStore.isThinking /\ chatStore.thinkingStartTime = << >>

\* startThinking was called, and the elapsed time was updated since.
C23_Witness ==
  /\ chatStore.called = "updateThinkingElapsed"
  /\ chatStore.isThinking
  /\ chatStore.thinkingStartTime = << MaxClock >>
  /\ chatStore.thinkingElapsed = 1

\* C24: toggleReasoning(id) flips the expanded status of id, an absent flag
\* counting as collapsed; the flag of every other id is as it was, present or
\* absent; and a second toggle of the same id gives back the status.
C24_ToggleFlipsOneFlag ==
  [][ \A id \in MessageIds :
        StoreToggleReasoning(id) =>
          /\ id \in DOMAIN chatStore'.reasoningExpanded
          /\ chatStore'.reasoningExpanded[id] = ~Expanded(chatStore.reasoningExpanded, id)
          /\ \A other \in MessageIds \ {id} :
               /\ other \in DOMAIN chatStore'.reasoningExpanded
                    <=> other \in DOMAIN chatStore.reasoningExpanded
               /\ Expanded(chatStore'.reasoningExpanded, other)
                    = Expanded(chatStore.reasoningExpanded, other)
          /\ Expanded(storeToggleReasoning(chatStore', id).reasoningExpanded, id)
               = Expanded(chatStore.reasoningExpanded, id)
          /\ storeToggleReasoning(chatStore', id).reasoningExpanded
               = [chatStore'.reasoningExpanded EXCEPT ![id] = ~@] ]_vars

\* msg-1 was toggled twice and is collapsed again, with its flag now present,
\* while msg-2, toggled once, stays expanded.
C24_Witness ==
  /\ chatStore.called = "toggleReasoning"
  /\ DOMAIN chatStore.reasoningExpanded = MessageIds
  /\ ~chatStore.reasoningExpanded["msg-1"]
  /\ chatStore.reasoningExpanded["msg-2"]

\* C25: clearMessages of the context provider leaves the displayed list empty,
\* replaces the cached list of the current session by the empty list, and
\* leaves the cached lists of all other sessions as they were.
C25_ClearReplacesCurrentCacheOnly ==
  [][ ClearChatDone =>
        /\ messages' = << >>
        /\ Kept(sessionMessages', currentSessionId) = << >>
        /\ \A k \in SessionIds \ {currentSessionId} :
             Kept(sessionMessages', k) = Kept(sessionMessages, k) ]_vars

\* C26: while a turn is in flight and was not stopped, its fetchStreamChat call
\* being issued or reading, isStreaming is true.
C26_StreamingWhileInFlight ==
  \A t \in TurnIds :
    (turns[t].pc \in {"fetch", "read"} /\ ~Stopped(t)) => isStreaming

\* C27: every turn leaves the streaming state: whenever isStreaming is true it
\* is false again later, however the stream ends.
C27_StreamingEnds == isStreaming ~> ~isStreaming

\* C28: a turn adds at most one assistant message: the displayed history never
\* holds more assistant messages than user messages.
C28_OneAssistantMessagePerTurn ==
  Cardinality({ i \in DOMAIN messages : messages[i].role = "assistant" })
    <= Cardinality({ i \in DOMAIN messages : messages[i].role = "user" })

\* The callbacks of fetchStreamChat, the terminal ones among them.
TerminalCallbacks == {"onComplete", "onError"}

StreamCallbacks ==
  TerminalCallbacks \cup
    {"onChunk", "onReasoning", "onReasoningStart", "onReasoningEnd", "onAnswerStart"}

RECURSIVE ExpectedCallbacks(_)
ExpectedCallbacks(evs) ==
  IF evs = << >> THEN << >>
  ELSE LET d == Dispatch(Head(evs))
           rest == IF d.ret THEN << >> ELSE ExpectedCallbacks(Tail(evs))
       IN IF d.cb = "none" THEN rest ELSE << d.cb >> \o rest

IsCallback(entry) == entry \in StreamCallbacks \cup {"onMetadata"}

\* C30: the callbacks delivered depend on the data lines only: whatever the
\* reads, a call has delivered the callbacks of the lines it has received, once
\* each and in order, followed at most by the onComplete of the end of the
\* stream or the onError of a failed read.
C30_CallbacksFollowLines ==
  \A t \in TurnIds :
    (turns[t].pc \in {"read", "done"} /\ turns[t].streamId # 0) =>
      LET delivered == SelectSeq(turns[t].log, IsCallback)
          expected == ExpectedCallbacks(
                        SubSeq(Streams[turns[t].streamId], 1, turns[t].pos))
      IN \/ delivered = expected
         \/ /\ turns[t].pc = "done"
            /\ delivered \in { expected \o << "onComplete" >>,
                               expected \o << "onError" >> }

\* C37: resetStreamingState clears the per-turn streaming fields (both buffers,
\* isStreaming, isThinking, thinkingStartTime, thinkingElapsed, error) and
\* leaves the message list and the expanded flags as they were.
C37_ResetStreamingStateFrame ==
  [][ StoreResetStreamingState =>
        /\ chatStore'.streamingMessage = Empty
        /\ chatStore'.streamingReasoning = Empty
        /\ ~chatStore'.isStreaming
        /\ ~chatStore'.isThinking
        /\ chatStore'.thinkingStartTime = << >>
        /\ chatStore'.thinkingElapsed = 0
        /\ chatStore'.error = << >>
        /\ chatStore'.messages = chatStore.messages
        /\ chatStore'.reasoningExpanded = chatStore.reasoningExpanded ]_vars

\* resetStreamingState was called on a store that holds a message and an
\* expanded flag.
C37_Witness ==
  /\ chatStore.called = "resetStreamingState"
  /\ chatStore.messages # << >>
  /\ \E id \in MessageIds : Expanded(chatStore.reasoningExpanded, id)
  /\ chatStore.streamingMessage = Empty
  /\ ~chatStore.isStreaming

\* The places of the entries of a session id in a list, and the last of them.
EntriesOf(list, id) == { i \in DOMAIN list : list[i].session_id = id }

LastEntry(list, id) ==
  list[CHOOSE k \in EntriesOf(list, id) : \A j \in EntriesOf(list, id) : j <= k]

Duplicated(list) == { id \in IdsOf(list) : Cardinality(EntriesOf(list, id)) > 1 }

\* C32 as stated: after a successful refreshSessions no two entries of the
\* store's list share a session_id, and an id the response holds more than
\* once has exactly one entry, the last one returned.
C32_DuplicateAlwaysKept ==
  [][ \A c \in CallIds :
        SessionGetDone(c) =>
          /\ \A id \in IdsOf(sessionStore'.sessions) :
               Cardinality(EntriesOf(sessionStore'.sessions, id)) = 1
          /\ \A id \in Duplicated(mockSessions) :
               /\ Cardinality(EntriesOf(sessionStore'.sessions, id)) = 1
               /\ LastEntry(sessionStore'.sessions, id) = LastEntry(mockSessions, id)
    ]_vars

\* C32: after a successful refreshSessions no two entries of the store's list
\* share a session_id; every entry kept is the last one the response holds for
\* its id; and an id of the response has an entry exactly when includeEmpty is
\* set or that last one has a message or was active within the hour.
C32_OneEntryPerId ==
  [][ \A c \in CallIds :
        SessionGetDone(c) =>
          /\ \A id \in IdsOf(sessionStore'.sessions) :
               Cardinality(EntriesOf(sessionStore'.sessions, id)) = 1
          /\ IdsOf(sessionStore'.sessions) \subseteq IdsOf(mockSessions)
          /\ \A id \in IdsOf(mockSessions) :
               LET last == LastEntry(mockSessions, id) IN
               /\ \A i \in EntriesOf(sessionStore'.sessions, id) :
                    sessionStore'.sessions[i] = last
               /\ id \in IdsOf(sessionStore'.sessions)
                    <=> \/ sessionStore.calls[c].includeEmpty
                        \/ last.message_count > 0
                        \/ last.last_active > now - OneHour
    ]_vars

\* A refresh has returned a list whose entry of a session is the last of the
\* two the server holds for its id, and not the renamed first one.
C32_Witness ==
  \E c \in CallIds, id \in Duplicated(mockSessions) :
    /\ sessionStore.calls[c].pc = "idle"
    /\ sessionStore.calls[c].result = "returned"
    /\ mockSessions[CHOOSE i \in EntriesOf(mockSessions, id) :
                      \A j \in EntriesOf(mockSessions, id) : i <= j].name = "new-name"
    /\ LastEntry(mockSessions, id).name = "null"
    /\ Cardinality(EntriesOf(sessionStore.sessions, id)) = 1
    /\ LastEntry(sessionStore.sessions, id) = LastEntry(mockSessions, id)

\* C33: deleteSession(id) sets currentSessionId to null when id is the current
\* session and leaves it as it is otherwise; the list its refresh stores has no
\* entry of id; and when the DELETE fails, currentSessionId and the session
\* list are as before.
C33_DeleteSessionEffect ==
  [][ \A c \in CallIds :
        LET id == sessionStore.calls[c].id IN
        /\ SessionDeleteDone(c) =>
             sessionStore'.currentSessionId =
               IF id = sessionStore.currentSessionId THEN NoSession
               ELSE sessionStore.currentSessionId
        /\ (SessionGetDone(c) /\ sessionStore.calls[c].op = "deleteSession") =>
             id \notin IdsOf(sessionStore'.sessions)
        /\ SessionDeleteFails(c) =>
             /\ sessionStore'.currentSessionId = sessionStore.currentSessionId
             /\ sessionStore'.sessions = sessionStore.sessions
    ]_vars

\* C33, for the Delete button of the sidebar: handleDeleteSession(id) leaves no
\* current session when id is the current session, and leaves currentSessionId
\* as it is otherwise; the refreshed list has no entry of id; and when the
\* DELETE fails, currentSessionId and the list are as before.
C33_SidebarDeleteEffect ==
  [][ /\ SidebarDeleteDone =>
           /\ currentSessionId' = IF sidebar.target = currentSessionId THEN NoSession
                                  ELSE currentSessionId
           /\ sidebar.target \notin sessions'
      /\ SidebarDeleteFails =>
           /\ currentSessionId' = currentSessionId
           /\ sessions' = sessions
    ]_vars

\* C34: the step that ends a createSession or a refreshSessions leaves loading
\* false, and loading is false whenever no call is in flight; a createSession
\* whose POST fails throws and leaves currentSessionId and the session list as
\* they were; a refreshSessions whose request fails returns normally and leaves
\* the session list as it was.
C34_LoadingEndsWithCalls ==
  [][ /\ \A c \in CallIds :
           /\ (SessionGetDone(c) \/ SessionGetFails(c) \/ SessionCreateFails(c)) =>
                ~sessionStore'.loading
           /\ SessionCreateFails(c) =>
                /\ sessionStore'.calls[c].result = "threw"
                /\ sessionStore'.currentSessionId = sessionStore.currentSessionId
                /\ sessionStore'.sessions = sessionStore.sessions
           /\ SessionGetFails(c) =>
                /\ sessionStore'.calls[c].result = "returned"
                /\ sessionStore'.sessions = sessionStore.sessions
      /\ (\A c \in CallIds : sessionStore'.calls[c].pc = "idle") => ~sessionStore'.loading
    ]_vars

\* A createSession has thrown and a refreshSessions has returned, no call is in
\* flight, and the store holds a list.
C34_Witness ==
  \E c1, c2 \in CallIds :
    /\ sessionStore.calls[c1] = [IdleCall EXCEPT !.op = "createSession", !.result = "threw"]
    /\ sessionStore.calls[c2] = [IdleCall EXCEPT !.op = "refreshSessions",
                                                 !.result = "returned"]
    /\ ~sessionStore.loading
    /\ sessionStore.sessions # << >>

\* C35: a loadModels call that has ended has set loadingModels back to false,
\* in the store and in the provider, whatever the server answered.
C35_LoadingModelsEnds ==
  /\ configStore.load = "done" => ~configStore.loadingModels
  /\ appConfig.load = "done" => ~appConfig.loadingModels

\* C36: setCurrentModelId(m) with m the current model changes nothing and sends
\* nothing; otherwise it sets currentModelId to m and sends setSessionModel for
\* the current session if there is one, and for no other; when that request
\* ends, failed or not, the call returns and currentModelId is as it was set.
C36_SetCurrentModelId ==
  [][ /\ \A m \in ModelIds :
           /\ ConfigSetCurrentModelId(m) =>
                /\ configStore'.currentModelId = m
                /\ configStore'.sent = configStore.sent
                /\ configStore.currentModelId = m =>
                     configStore'.setModel = configStore.setModel
           /\ AppSetCurrentModelId(m) =>
                /\ appConfig'.currentModelId = m
                /\ appConfig'.sent =
                     IF appConfig.currentModelId # m /\ currentSessionId # NoSession
                       THEN Append(appConfig.sent,
                                   [session |-> currentSessionId, modelId |-> m])
                       ELSE appConfig.sent
      /\ ConfigSessionRead =>
           /\ configStore'.currentModelId = configStore.currentModelId
           /\ configStore'.sent =
                IF sessionStore.currentSessionId # NoSession
                  THEN Append(configStore.sent,
                              [session |-> sessionStore.currentSessionId,
                               modelId |-> configStore.setModel.modelId])
                  ELSE configStore.sent
      /\ \A rejected \in BOOLEAN :
           /\ ConfigPutEnds(rejected) =>
                /\ configStore'.currentModelId = configStore.currentModelId
                /\ configStore'.setModel.result = "returned"
           /\ AppPutEnds(rejected) =>
                /\ appConfig'.currentModelId = appConfig.currentModelId
                /\ appConfig'.setModel.result = "returned"
    ]_vars

\* C31: the assistant message a sendMessage stores holds chunk fragments and
\* reasoning fragments of its own stream only, also when turns overlap: no
\* fragment of another turn's stream is in it.
C31_OwnFragmentsOnly ==
  \A t \in TurnIds :
    \A i \in DOMAIN sends[t].stored :
      LET message == sends[t].stored[i] IN
      /\ \A k \in DOMAIN message.content : message.content[k][2] = t
      /\ \A k \in DOMAIN message.reasoning : message.reasoning[k][2] = t

=============================================================================
